---- MODULE Spec2Model ----
(***************************************************************************)
(* Model of the blumleon.vrp diff/reconciliation engine                    *)
(* (plugins/module_utils/vrp_common.py) and of the modules that call it.   *)
(*                                                                         *)
(* Configuration lines are TLA+ strings handled character by character,    *)
(* as the Python code handles them.  Two characters of the source cannot   *)
(* be written in a TLA+ string and are written with a stand-in:            *)
(*     EN DASH (U+2013) is written "~", EM DASH (U+2014) is written "_".   *)
(* A Python call that raises is modelled by a companion predicate          *)
(* (<name>_raises) that tells whether the call raises on that input.       *)
(***************************************************************************)
EXTENDS Integers, Sequences, FiniteSets, TLC

VARIABLES
    pc,         \* position of the current call
    line,       \* argument of _norm / _undo_cmd; the line a builder produced
    line2,      \* second line of a comparison
    out,        \* value returned by the pure function under test
    running,    \* the device's running configuration (sequence of lines)
    parents,    \* parent path of the reconcile call
    cand,       \* candidate child lines
    state,      \* "present" | "absent" | "replace"
    keep,       \* keep lines
    save_when,  \* "never" | "changed" | "always"
    cmds,       \* body returned by diff_line_match
    cmds0,      \* body returned by the diff before the commands were applied
    changed,    \* changed flag of the call's result
    cli,        \* command list of the call's result
    params,     \* module.params of the module run
    check_mode, \* module.check_mode
    module,     \* the module that runs, "" when none does
    sent,       \* the command batches sent over the connection, in order
    files,      \* files on the controller: path -> [text, mtime]
    now,        \* the controller's clock, in seconds
    backup_path, \* path returned by backup_config, "" for None
    attempt,    \* iterations of the polling loop of vrp_command so far
    history,    \* the outputs of each execution of the command batch
    stdout,     \* stdout of the result of vrp_command
    failed_conditions \* failed_conditions of the result of vrp_command

vars == <<pc, line, line2, out, running, parents, cand, state, keep,
          save_when, cmds, cmds0, changed, cli, params, check_mode, module,
          sent,
          files, now, backup_path, attempt, history, stdout, failed_conditions>>

-----------------------------------------------------------------------------
(* Python str primitives                                                   *)

EnDash == "~"
EmDash == "_"

\* characters str.strip(), str.split() and the regex class \s treat as blank
Whitespace == {" ", "\t"}

Ch(s, i) == SubSeq(s, i, i)

Drop(s, n) == SubSeq(s, n + 1, Len(s))

Take(s, n) == SubSeq(s, 1, n)

startswith(s, p) == Len(s) >= Len(p) /\ Take(s, Len(p)) = p

RECURSIVE lstrip(_)
lstrip(s) ==
    IF s # "" /\ Ch(s, 1) \in Whitespace THEN lstrip(Drop(s, 1)) ELSE s

RECURSIVE rstrip(_)
rstrip(s) ==
    IF s # "" /\ Ch(s, Len(s)) \in Whitespace
    THEN rstrip(Take(s, Len(s) - 1)) ELSE s

strip(s) == rstrip(lstrip(s))

\* str.find: index (1-based) of the first occurrence of p in s from i, 0 if none
RECURSIVE find(_, _, _)
find(s, p, i) ==
    IF i + Len(p) - 1 > Len(s) THEN 0
    ELSE IF SubSeq(s, i, i + Len(p) - 1) = p THEN i
    ELSE find(s, p, i + 1)

contains(s, p) == find(s, p, 1) # 0

\* str.replace(old, new): leftmost, non-overlapping occurrences
RECURSIVE replace(_, _, _)
replace(s, old, new) ==
    LET i == find(s, old, 1) IN
    IF i = 0 THEN s
    ELSE Take(s, i - 1) \o new \o replace(Drop(s, i + Len(old) - 1), old, new)

\* str.translate(table) for a table given as a function on characters
RECURSIVE translate(_, _)
translate(s, table) ==
    IF s = "" THEN ""
    ELSE (IF Ch(s, 1) \in DOMAIN table THEN table[Ch(s, 1)] ELSE Ch(s, 1))
         \o translate(Drop(s, 1), table)

Upper == "ABCDEFGHIJKLMNOPQRSTUVWXYZ"
Lower == "abcdefghijklmnopqrstuvwxyz"

\* str.lower() on one character
LowerMap == [c \in {Ch(Upper, i) : i \in 1..26} |-> Ch(Lower, find(Upper, c, 1))]

lower_ch(c) == IF c \in DOMAIN LowerMap THEN LowerMap[c] ELSE c

RECURSIVE lower(_)
lower(s) == IF s = "" THEN "" ELSE lower_ch(Ch(s, 1)) \o lower(Drop(s, 1))

\* number of leading blanks of s
RECURSIVE blanks(_)
blanks(s) ==
    IF s # "" /\ Ch(s, 1) \in Whitespace THEN 1 + blanks(Drop(s, 1)) ELSE 0

\* str.split(): the maximal runs of non-blank characters
RECURSIVE word(_)
word(s) ==
    IF s = "" \/ Ch(s, 1) \in Whitespace THEN "" ELSE Ch(s, 1) \o word(Drop(s, 1))

RECURSIVE split(_)
split(s) ==
    LET t == lstrip(s) IN
    IF t = "" THEN <<>>
    ELSE <<word(t)>> \o split(Drop(t, Len(word(t))))

\* " ".join(tokens)
RECURSIVE join(_)
join(toks) ==
    IF toks = <<>> THEN ""
    ELSE IF Len(toks) = 1 THEN toks[1]
    ELSE toks[1] \o " " \o join(Tail(toks))

Digits == "0123456789"

DigitVal == [c \in {Ch(Digits, i) : i \in 1..10} |-> find(Digits, c, 1) - 1]

isdigit(c) == c \in DOMAIN DigitVal

\* the maximal run of decimal digits at the start of s
RECURSIVE digit_run(_)
digit_run(s) ==
    IF s # "" /\ isdigit(Ch(s, 1)) THEN Ch(s, 1) \o digit_run(Drop(s, 1)) ELSE ""

\* int(s) for the strings it accepts here: a non-empty run of decimal digits
int_raises(s) == s = "" \/ digit_run(s) # s

RECURSIVE int(_)
int(s) ==
    IF s = "" THEN 0
    ELSE 10 * int(Take(s, Len(s) - 1)) + DigitVal[Ch(s, Len(s))]

-----------------------------------------------------------------------------
(* Diff engine: string normalisation                                       *)

\* _dash_map = {ord(EN DASH): " ", ord(EM DASH): " "}
dash_map == (EnDash :> " ") @@ (EmDash :> " ")

\* re.sub(r"\s*-\s*", "-", s)
RECURSIVE sub_hyphen(_)
sub_hyphen(s) ==
    IF s = "" THEN ""
    ELSE LET b == blanks(s) IN
         IF b < Len(s) /\ Ch(s, b + 1) = "-"
         THEN "-" \o sub_hyphen(lstrip(Drop(s, b + 1)))
         ELSE Ch(s, 1) \o sub_hyphen(Drop(s, 1))

\* _defrag.sub(" ", s) with _defrag = re.compile(r"\s+")
RECURSIVE defrag_sub(_)
defrag_sub(s) ==
    IF s = "" THEN ""
    ELSE IF blanks(s) > 0 THEN " " \o defrag_sub(Drop(s, blanks(s)))
    ELSE Ch(s, 1) \o defrag_sub(Drop(s, 1))

\* the group ([0-9]+) after the greedy 0*: the digits without leading zeros,
\* at least one digit
RECURSIVE strip_zeros(_)
strip_zeros(d) ==
    IF Len(d) > 1 /\ Ch(d, 1) = "0" THEN strip_zeros(Drop(d, 1)) ELSE d

\* re.sub(r"add 0*([0-9]+):00:00", r"add \1", low)
RECURSIVE sub_add(_)
sub_add(s) ==
    IF s = "" THEN ""
    ELSE LET d == digit_run(Drop(s, 4)) IN
         IF startswith(s, "add ") /\ d # ""
            /\ startswith(Drop(s, 4 + Len(d)), ":00:00")
         THEN "add " \o strip_zeros(d) \o sub_add(Drop(s, 4 + Len(d) + 6))
         ELSE Ch(s, 1) \o sub_add(Drop(s, 1))

\* x.split("-")[0]
before_hyphen(x) ==
    LET i == find(x, "-", 1) IN IF i = 0 THEN x ELSE Take(x, i - 1)

vlan_key(x) == int(before_hyphen(x))

\* sorted(tokens, key=...): stable, ascending in the key
RECURSIVE insert_sorted(_, _)
insert_sorted(sorted, x) ==
    IF sorted = <<>> THEN <<x>>
    ELSE IF vlan_key(sorted[Len(sorted)]) <= vlan_key(x) THEN Append(sorted, x)
    ELSE Append(insert_sorted(SubSeq(sorted, 1, Len(sorted) - 1), x),
                sorted[Len(sorted)])

RECURSIVE sorted_vlans(_)
sorted_vlans(toks) ==
    IF toks = <<>> THEN <<>>
    ELSE insert_sorted(sorted_vlans(SubSeq(toks, 1, Len(toks) - 1)),
                       toks[Len(toks)])

TrunkPrefix == "port trunk allow-pass vlan "
HybridPrefix == "port hybrid tagged vlan "

\* the steps of _norm up to and including the timezone substitution
norm_low(s) ==
    LET s1 == translate(strip(s), dash_map)
        s2 == replace(s1, " to ", "-")
        s3 == sub_hyphen(s2)
        s4 == defrag_sub(s3)
    IN  sub_add(lower(s4))

\* low.split("vlan ", 1)
vlan_split(low) ==
    LET i == find(low, "vlan ", 1) IN <<Take(low, i - 1), Drop(low, i + 4)>>

is_vlan_list(low) == startswith(low, TrunkPrefix) \/ startswith(low, HybridPrefix)

\* the branch of _norm on low raises ValueError when int() rejects the start
\* of a VLAN token
norm_vlans_raises(low) ==
    /\ is_vlan_list(low)
    /\ \E i \in DOMAIN split(vlan_split(low)[2]) :
          int_raises(before_hyphen(split(vlan_split(low)[2])[i]))

\* _norm without the branch that sorts a VLAN list
norm_unsorted(low) == low

\* if low.startswith((...)): ... return f"{prefix}vlan {' '.join(tokens)}"
\* return low
norm_vlans(low) ==
    IF is_vlan_list(low)
    THEN vlan_split(low)[1] \o "vlan "
         \o join(sorted_vlans(split(vlan_split(low)[2])))
    ELSE low

_norm_raises(s) == norm_vlans_raises(norm_low(s))

_norm(s) == norm_vlans(norm_low(s))

-----------------------------------------------------------------------------
(* Undo translator                                                         *)

Min(a, b) == IF a < b THEN a ELSE b

\* tokens[a:b] with the end taken as the last index, not one past it
slice_closed(toks, a, b) == SubSeq(toks, a + 1, Min(b + 1, Len(toks)))

\* tokens[a:b] (0-based, half-open, clipped to the list)
slice(toks, a, b) == SubSeq(toks, a + 1, Min(b, Len(toks)))

\* the chain of _undo_cmd raises IndexError where it indexes a token the line
\* lacks
undo_tokens_raises(tokens) ==
    /\ tokens # <<>>
    /\ tokens[1] # "port"
    /\ slice(tokens, 0, 2) # <<"ip", "domain-name">>
    /\ ~(slice(tokens, 0, 2) = <<"dns", "server">> /\ Len(tokens) >= 3)
    /\ \/ slice(tokens, 0, 2) = <<"clock", "timezone">> /\ Len(tokens) < 3
       \/ /\ slice(tokens, 0, 2) # <<"clock", "timezone">>
          /\ slice(tokens, 0, 2) # <<"clock", "daylight-saving-time">>
          /\ \/ slice(tokens, 0, 2) = <<"ntp", "unicast-server">> /\ Len(tokens) < 3
             \/ /\ slice(tokens, 0, 2) # <<"ntp", "unicast-server">>
                /\ slice(tokens, 0, 3) # <<"ntp", "server", "disable">>
                /\ slice(tokens, 0, 4) # <<"ntp", "ipv6", "server", "disable">>
                /\ \/ /\ slice(tokens, 0, 3) = <<"ntp", "server", "source-interface">>
                      /\ Len(tokens) < 4
                   \/ /\ slice(tokens, 0, 3) # <<"ntp", "server", "source-interface">>
                      /\ ~(slice(tokens, 0, 2) = <<"ssh", "user">> /\ Len(tokens) >= 3)
                      /\ slice(tokens, 0, 2) = <<"rsa", "peer-public-key">>
                      /\ Len(tokens) < 3

\* the chain of tests of _undo_cmd on tokens = line.strip().split()
undo_tokens(tokens) ==
    IF tokens = <<>> THEN ""
    ELSE IF tokens[1] = "port" THEN
        IF slice(tokens, 1, 3) = <<"link-type", tokens[Len(tokens)]>>
        THEN "undo port link-type"
        ELSE IF slice(tokens, 1, 3) = <<"default", "vlan">>
        THEN "undo port default vlan"
        ELSE IF slice(tokens, 1, 3) = <<"trunk", "allow-pass">> THEN ""
        ELSE IF slice(tokens, 1, 4) = <<"trunk", "pvid", "vlan">> THEN ""
        ELSE "undo " \o join(slice(tokens, 0, Len(tokens) - 1))
    ELSE IF slice(tokens, 0, 2) = <<"ip", "domain-name">>
    THEN "undo ip domain-name"
    ELSE IF slice(tokens, 0, 2) = <<"dns", "server">> /\ Len(tokens) >= 3 THEN
        IF tokens[3] = "ipv6" /\ Len(tokens) >= 4
        THEN "undo dns server ipv6 " \o tokens[4]
        ELSE "undo dns server " \o tokens[3]
    ELSE IF slice(tokens, 0, 2) = <<"clock", "timezone">>
    THEN "undo clock timezone " \o tokens[3]
    ELSE IF slice(tokens, 0, 2) = <<"clock", "daylight-saving-time">>
    THEN "undo clock daylight-saving-time"
    ELSE IF slice(tokens, 0, 2) = <<"ntp", "unicast-server">>
    THEN "undo ntp unicast-server " \o tokens[3]
    ELSE IF slice(tokens, 0, 3) = <<"ntp", "server", "disable">>
    THEN "undo ntp server disable"
    ELSE IF slice(tokens, 0, 4) = <<"ntp", "ipv6", "server", "disable">>
    THEN "undo ntp ipv6 server disable"
    ELSE IF slice(tokens, 0, 3) = <<"ntp", "server", "source-interface">>
    THEN "undo ntp server source-interface " \o tokens[4]
    ELSE IF slice(tokens, 0, 2) = <<"ssh", "user">> /\ Len(tokens) >= 3
    THEN "undo ssh user " \o tokens[3]
    ELSE IF slice(tokens, 0, 2) = <<"rsa", "peer-public-key">>
    THEN "undo rsa peer-public-key " \o tokens[3]
    ELSE IF tokens[1] = "local-user" /\ Len(tokens) >= 2
    THEN "undo local-user " \o tokens[2]
    ELSE IF slice(tokens, 0, 3) = <<"stp", "edged-port", "enable">>
    THEN "undo stp edged-port"
    ELSE IF slice(tokens, 0, 2) = <<"stp", "bpdu-protection">>
    THEN "undo stp bpdu-protection"
    ELSE "undo " \o tokens[1]

_undo_cmd_raises(l) == undo_tokens_raises(split(l))

_undo_cmd(l) == undo_tokens(split(l))

-----------------------------------------------------------------------------
(* Block locator and diff engine                                           *)

Range(f) == {f[i] : i \in DOMAIN f}

Max(S) == CHOOSE x \in S : \A y \in S : y <= x

\* the characters of the model in code point order (str comparison); the
\* stand-ins of EN DASH and EM DASH come last, as U+2013 and U+2014 do
CodePoints ==
    "\t #,-./0123456789:ABCDEFGHIJKLMNOPQRSTUVWXYZabcdefghijklmnopqrstuvwxyz~_"

OrdMap == [c \in {Ch(CodePoints, i) : i \in 1..Len(CodePoints)} |->
              find(CodePoints, c, 1)]

ord(c) == OrdMap[c]

\* a < b for Python str
RECURSIVE str_lt(_, _)
str_lt(a, b) ==
    IF b = "" THEN FALSE
    ELSE IF a = "" THEN TRUE
    ELSE IF Ch(a, 1) = Ch(b, 1) THEN str_lt(Drop(a, 1), Drop(b, 1))
    ELSE ord(Ch(a, 1)) < ord(Ch(b, 1))

\* the elements of S in descending order
RECURSIVE sorted_desc(_)
sorted_desc(S) ==
    IF S = {} THEN <<>>
    ELSE LET m == CHOOSE x \in S : \A y \in S \ {x} : str_lt(y, x)
         IN  <<m>> \o sorted_desc(S \ {m})

\* sorted(S) for a set of str
RECURSIVE sorted(_)
sorted(S) ==
    IF S = {} THEN <<>>
    ELSE LET m == CHOOSE x \in S : \A y \in S \ {x} : str_lt(x, y)
         IN  <<m>> \o sorted(S \ {m})

\* list.index(x), 0-based; -1 stands for the ValueError of a missing element
index(seq, x) ==
    IF \E i \in DOMAIN seq : seq[i] = x
    THEN (CHOOSE i \in DOMAIN seq : seq[i] = x /\ \A j \in 1..(i - 1) : seq[j] # x) - 1
    ELSE -1

\* the scan that goes on to the end of the running configuration
scan_rest(run, end) == Len(run)

\* while end < len(running) and running[end].startswith(" "): end += 1
RECURSIVE scan_end(_, _)
scan_end(run, end) ==
    IF end < Len(run) /\ startswith(run[end + 1], " ")
    THEN scan_end(run, end + 1) ELSE end

\* (start, end), 0-based as in the source
find_parent_block(run, par) ==
    IF par = <<>> THEN <<0, Len(run)>>
    ELSE IF index(run, par[1]) = -1 THEN <<-1, -1>>
    ELSE <<index(run, par[1]), scan_end(run, index(run, par[1]) + 1)>>

\* blk_children = running[start + 1 : end] if start >= 0 else []
blk_children(run, par) ==
    LET se == find_parent_block(run, par) IN
    IF se[1] >= 0 THEN slice(run, se[1] + 1, se[2]) ELSE <<>>

\* raw_by_norm = {_norm(c): c.lstrip() for c in blk_children}: a later child
\* with the same normal form replaces the value of an earlier one
by_norm(children, nc) ==
    [n \in Range(nc) |->
        lstrip(children[Max({i \in DOMAIN children : nc[i] = n})])]

raw_by_norm(children) ==
    by_norm(children, [i \in DOMAIN children |-> _norm(children[i])])

\* the test of the link-type lines without the comparison with plain
any_link_type(rbn, plain) ==
    \E n \in DOMAIN rbn : startswith(rbn[n], "port link-type ")

\* any(line.startswith("port link-type ") and _norm(line) != plain
\*     for line in raw_by_norm.values())
other_link_type(rbn, plain) ==
    \E n \in DOMAIN rbn :
        startswith(rbn[n], "port link-type ") /\ _norm(rbn[n]) # plain

\* if undo: cmds.append(undo)
append_if(undo) == IF undo # "" THEN <<undo>> ELSE <<>>

\* the undo commands of the removals, in sorted order, empty undos skipped
RECURSIVE removal_cmds(_, _)
removal_cmds(ns, rbn) ==
    IF ns = <<>> THEN <<>>
    ELSE append_if(_undo_cmd(rbn[ns[1]])) \o removal_cmds(Tail(ns), rbn)

\* the candidate loop of state replace emitting the normal form of a candidate
replace_plain(raw, plain, rbn) ==
    IF plain = "port link-type access"
    THEN (IF other_link_type(rbn, plain) THEN <<plain>> ELSE <<>>)
    ELSE IF plain = "undo shutdown"
    THEN (IF "shutdown" \in DOMAIN rbn THEN <<plain>> ELSE <<>>)
    ELSE IF plain \notin DOMAIN rbn THEN <<plain>>
    ELSE <<>>

\* one iteration of the candidate loop of state replace, plain = _norm(raw)
replace_emit(raw, plain, rbn) ==
    IF plain = "port link-type access"
    THEN (IF other_link_type(rbn, plain) THEN <<raw>> ELSE <<>>)
    ELSE IF plain = "undo shutdown"
    THEN (IF "shutdown" \in DOMAIN rbn THEN <<raw>> ELSE <<>>)
    ELSE IF plain \notin DOMAIN rbn THEN <<raw>>
    ELSE <<>>

replace_step(raw, rbn) == replace_emit(raw, _norm(raw), rbn)

\* the candidate is emitted whatever the block holds
present_always(raw, plain, rbn) == <<raw>>

\* one iteration of the candidate loop of state present, plain = _norm(raw)
present_emit(raw, plain, rbn) ==
    IF plain = "undo shutdown"
    THEN (IF "shutdown" \in DOMAIN rbn THEN <<raw>> ELSE <<>>)
    ELSE IF plain = "port link-type access"
    THEN (IF other_link_type(rbn, plain) THEN <<raw>> ELSE <<>>)
    ELSE IF plain \notin DOMAIN rbn THEN <<raw>>
    ELSE <<>>

present_step(raw, rbn) == present_emit(raw, _norm(raw), rbn)

\* the undo of the candidate itself, whatever the block holds
absent_always(plain, rbn) == append_if(_undo_cmd(plain))

\* one iteration of the candidate loop of state absent, plain = _norm(raw)
absent_emit(plain, rbn) ==
    IF plain \in DOMAIN rbn THEN append_if(_undo_cmd(rbn[plain])) ELSE <<>>

absent_step(raw, rbn) == absent_emit(_norm(raw), rbn)

\* for raw in cand_children: ... (the loop of the given state)
RECURSIVE cand_loop(_, _, _)
cand_loop(cs, rbn, st) ==
    IF cs = <<>> THEN <<>>
    ELSE (CASE st = "replace" -> replace_step(cs[1], rbn)
            [] st = "present" -> present_step(cs[1], rbn)
            [] st = "absent" -> absent_step(cs[1], rbn)
            [] OTHER -> <<>>)
         \o cand_loop(Tail(cs), rbn, st)

\* cmds.insert(i, x), 0-based
insert(seq, i, x) == SubSeq(seq, 1, i) \o <<x>> \o SubSeq(seq, i + 1, Len(seq))

\* cmds.pop(i), 0-based: the list without element i
without(seq, i) == SubSeq(seq, 1, i) \o SubSeq(seq, i + 2, Len(seq))

\* if "undo port link-type" in cmds: ... cmds.insert(last_undo + 1, cmds.pop(idx))
relocate(cs) ==
    IF \E i \in DOMAIN cs : cs[i] = "undo port link-type" THEN
        LET idx == index(cs, "undo port link-type")
            last_undo == Max({i \in DOMAIN cs : startswith(cs[i], "undo")}) - 1
        IN  IF last_undo < idx
            THEN insert(without(cs, idx), last_undo + 1, cs[idx + 1])
            ELSE cs
    ELSE cs

norms(seq) == {_norm(seq[i]) : i \in DOMAIN seq}

\* some line of seq makes _norm raise
any_norm_raises(seq) == \E i \in DOMAIN seq : _norm_raises(seq[i])

\* an _undo_cmd call of the replace or absent branch raises
undo_raises(rbn, cs, st, kp) ==
    \/ /\ st = "replace"
       /\ \E n \in (DOMAIN rbn \ norms(cs)) \ norms(kp) : _undo_cmd_raises(rbn[n])
    \/ /\ st = "absent"
       /\ \E n \in DOMAIN rbn \cap norms(cs) : _undo_cmd_raises(rbn[n])

\* diff_line_match raises when a _norm or _undo_cmd call it makes raises
diff_line_match_raises(run, par, cs, st, kp) ==
    \/ any_norm_raises(blk_children(run, par))
    \/ any_norm_raises(cs)
    \/ st = "replace" /\ any_norm_raises(kp)
    \/ undo_raises(raw_by_norm(blk_children(run, par)), cs, st, kp)

\* the branches of diff_line_match on raw_by_norm
diff_branches(rbn, cs, st, kp) ==
    IF st = "replace"
    THEN relocate(removal_cmds(sorted((DOMAIN rbn \ norms(cs)) \ norms(kp)), rbn)
                  \o cand_loop(cs, rbn, "replace"))
    ELSE cand_loop(cs, rbn, st)

diff_line_match(run, par, cs, st, kp) ==
    diff_branches(raw_by_norm(blk_children(run, par)), cs, st, kp)

-----------------------------------------------------------------------------
(* Command wrapper                                                         *)

\* a plain command string as an element of a command list
Plain(s) == [command |-> s, prompt |-> "", answer |-> ""]

\* {"command": "save", "prompt": "[Y/N]", "answer": "Y"}
SaveCmd == [command |-> "save", prompt |-> "[Y/N]", answer |-> "Y"]

RECURSIVE plain_list(_)
plain_list(seq) ==
    IF seq = <<>> THEN <<>> ELSE <<Plain(seq[1])>> \o plain_list(Tail(seq))

\* ["return"] * n
RECURSIVE returns(_)
returns(n) == IF n <= 0 THEN <<>> ELSE <<Plain("return")>> \o returns(n - 1)

\* append_save without the test of save_when
save_appended(cli_cmds, sw, chg) == cli_cmds \o <<SaveCmd>>

\* if save_when == "always" or (save_when == "changed" and changed): ...
append_save(cli_cmds, sw, chg) ==
    IF sw = "always" \/ (sw = "changed" /\ chg)
    THEN cli_cmds \o <<SaveCmd>> ELSE cli_cmds

\* desired_state = state or ("replace" if replace else "present"); st = ""
\* stands for state=None, rep for the keyword replace
desired_state(st, rep) ==
    IF st # "" THEN st ELSE IF rep THEN "replace" ELSE "present"

\* diff_and_wrap on the running configuration the connection returns
diff_and_wrap_raises(run, par, cs, sw, rep, kp, st) ==
    diff_line_match_raises(run, par, cs, desired_state(st, rep), kp)

\* if not body_changed: return False, [] ... return True, cli_cmds
wrap_body(par, body_changed, sw) ==
    IF body_changed = <<>> THEN <<FALSE, <<>>>>
    ELSE <<TRUE,
           append_save(<<Plain("system-view")>> \o plain_list(par)
                       \o plain_list(body_changed)
                       \o returns(Len(par) + 1), sw, TRUE)>>

diff_and_wrap(run, par, cs, sw, rep, kp, st) ==
    wrap_body(par, diff_line_match(run, par, cs, desired_state(st, rep), kp), sw)

-----------------------------------------------------------------------------
(* Interface helpers (line builders)                                       *)

\* p.get(k) is not None: a parameter that is not given is no key of p
has(p, k) == k \in DOMAIN p

\* str(n) for n >= 0
RECURSIVE to_str(_)
to_str(n) ==
    IF n < 10 THEN Ch(Digits, n + 1)
    ELSE to_str(n \div 10) \o Ch(Digits, (n % 10) + 1)

_l1_lines(p) ==
    (IF has(p, "description")
     THEN (IF p["description"] = "" THEN <<"undo description">>
           ELSE <<"description " \o p["description"]>>)
     ELSE <<>>)
    \o (IF has(p, "admin_state") /\ p["admin_state"] = "up"
        THEN <<"undo shutdown">>
        ELSE IF has(p, "admin_state") /\ p["admin_state"] = "down"
        THEN <<"shutdown">>
        ELSE <<>>)
    \o (IF has(p, "speed") /\ p["speed"] # ""
        THEN <<"speed " \o p["speed"]>> ELSE <<>>)
    \o (IF has(p, "mtu") /\ p["mtu"] # 0
        THEN <<"mtu " \o to_str(p["mtu"])>> ELSE <<>>)

\* re.split(r"[,\s]+", raw.strip()) without the empty strings the loop skips
RECURSIVE comma_split(_)
comma_split(s) ==
    IF s = "" THEN <<>>
    ELSE IF Ch(s, 1) = "," \/ Ch(s, 1) \in Whitespace THEN comma_split(Drop(s, 1))
    ELSE LET i == Min(IF find(s, ",", 1) = 0 THEN Len(s) + 1 ELSE find(s, ",", 1),
                      Len(word(s)) + 1)
         IN  <<Take(s, i - 1)>> \o comma_split(Drop(s, i - 1))

\* a, b = tok.split("-", 1); f"{a.strip()} to {b.strip()}"
vlan_part(tok) ==
    LET i == find(tok, "-", 1) IN
    IF i = 0 THEN tok
    ELSE strip(Take(tok, i - 1)) \o " to " \o strip(Drop(tok, i))

RECURSIVE vlan_parts(_)
vlan_parts(toks) ==
    IF toks = <<>> THEN <<>> ELSE <<vlan_part(toks[1])>> \o vlan_parts(Tail(toks))

_normalize_vlan_list(raw) == join(vlan_parts(comma_split(strip(raw))))

_l2_lines(p) ==
    LET mode == IF has(p, "port_mode") THEN p["port_mode"] ELSE ""
        raw_list == IF has(p, "trunk_vlans") THEN p["trunk_vlans"] ELSE ""
    IN  (IF mode # "" THEN <<"port link-type " \o mode>> ELSE <<>>)
        \o (IF mode = "access" /\ has(p, "vlan")
            THEN <<"port default vlan " \o to_str(p["vlan"])>> ELSE <<>>)
        \o (IF mode = "trunk" /\ raw_list # ""
            THEN <<"port trunk allow-pass vlan " \o _normalize_vlan_list(raw_list)>>
                 \o (IF has(p, "native_vlan")
                     THEN <<"port trunk pvid vlan " \o to_str(p["native_vlan"])>>
                     ELSE <<>>)
            ELSE <<>>)
        \o (IF mode = "hybrid" /\ raw_list # ""
            THEN <<"port hybrid tagged vlan " \o _normalize_vlan_list(raw_list)>>
                 \o (IF has(p, "native_vlan")
                     THEN <<"port hybrid pvid vlan " \o to_str(p["native_vlan"])>>
                     ELSE <<>>)
            ELSE <<>>)
        \o (IF has(p, "stp_edged") /\ p["stp_edged"]
            THEN <<"stp edged-port enable">> ELSE <<>>)

build_interface_lines(p) == _l1_lines(p) \o _l2_lines(p)

-----------------------------------------------------------------------------
(* Bounds and input sets                                                   *)

MaxFrags == 3

\* all sequences over S of length at most n
RECURSIVE SeqsUpTo(_, _)
SeqsUpTo(S, n) ==
    IF n = 0 THEN {<<>>}
    ELSE LET shorter == SeqsUpTo(S, n - 1)
         IN  shorter \cup {Append(s, x) : s \in shorter, x \in S}

RECURSIVE concat(_)
concat(seq) == IF seq = <<>> THEN "" ELSE seq[1] \o concat(Tail(seq))

\* pieces of text the normaliser treats specially
Fragments == {" ", "-", "~", " to ", " TO ", "7", "10", "all", "add 08", ":00:00"}

Heads == {"", "port trunk allow-pass vlan ", "port hybrid tagged vlan ",
          "clock timezone CET "}

NormInputs ==
    {h \o concat(fs) : h \in Heads, fs \in SeqsUpTo(Fragments, MaxFrags)}
    \cup {"a_b", "\tDescription  Uplink_Core ", "port trunk allow-pass vlan 2 to 4094"}

\* the variables a specification does not use
NoLines == line = "" /\ line2 = "" /\ out = ""

NoCall ==
    /\ running = <<>> /\ parents = <<>> /\ cand = <<>> /\ state = ""
    /\ keep = <<>> /\ save_when = "" /\ cmds = <<>> /\ cmds0 = <<>>
    /\ changed = FALSE /\ cli = <<>>

NoModule == params = <<>> /\ check_mode = FALSE /\ module = "" /\ sent = <<>>

callVars ==
    <<running, parents, cand, state, keep, save_when, cmds, cmds0, changed, cli>>

moduleVars == <<params, check_mode, module, sent>>

\* no file on the controller, no polling loop
NoHost ==
    /\ files = <<>> /\ now = 0 /\ backup_path = ""
    /\ attempt = 0 /\ history = <<>> /\ stdout = <<>> /\ failed_conditions = <<>>

backupVars == <<files, now, backup_path>>

pollVars == <<attempt, history, stdout, failed_conditions>>

hostVars == <<backupVars, pollVars>>

-----------------------------------------------------------------------------
(* The line normaliser applied to a line, and again to its result          *)

InitNorm ==
    /\ NoHost
    /\ pc = "call"
    /\ line \in NormInputs
    /\ line2 = "" /\ out = ""
    /\ NoCall /\ NoModule

\* out = _norm(line)
NormCall ==
    /\ pc = "call"
    /\ IF _norm_raises(line)
       THEN pc' = "raised" /\ out' = out
       ELSE pc' = "returned" /\ out' = _norm(line)
    /\ UNCHANGED <<hostVars, line, line2, callVars, moduleVars>>

\* out = _norm(out), line2 keeps the first result
NormAgain ==
    /\ pc = "returned"
    /\ line2' = out
    /\ IF _norm_raises(out)
       THEN pc' = "raised_again" /\ out' = out
       ELSE pc' = "again" /\ out' = _norm(out)
    /\ UNCHANGED <<hostVars, line, callVars, moduleVars>>

NextNorm == NormCall \/ NormAgain

SpecNorm == InitNorm /\ [][NextNorm]_vars

\* C7: the line normaliser is idempotent: normalising the result of _norm
\* again neither raises nor changes it, _norm(_norm(x)) = _norm(x)
NormIdempotent ==
    pc \in {"again", "raised_again"} => (pc = "again" /\ out = line2)

\* C8: the line normaliser is total: _norm returns a string for every input
\* line and raises no exception
NormTotal == pc # "raised"

-----------------------------------------------------------------------------
(* The undo translator applied to an existing line                         *)

MaxArgs == 2

UndoHeads ==
    {"", "description", "shutdown", "port", "port link-type",
     "port default vlan", "port trunk allow-pass vlan", "port trunk pvid vlan",
     "port hybrid pvid vlan", "port hybrid tagged vlan",
     "port hybrid untagged vlan", "ip domain-name", "dns server",
     "dns server ipv6", "clock timezone", "clock daylight-saving-time",
     "ntp unicast-server", "ntp server disable", "ntp ipv6 server disable",
     "ntp server source-interface", "ssh user", "rsa peer-public-key",
     "local-user", "stp edged-port enable", "stp bpdu-protection"}

UndoArgs == {" access", " 10", "  bob"}

UndoInputs ==
    {h \o concat(as) : h \in UndoHeads, as \in SeqsUpTo(UndoArgs, MaxArgs)}

InitUndo ==
    /\ NoHost
    /\ pc = "call"
    /\ line \in UndoInputs
    /\ line2 = "" /\ out = ""
    /\ NoCall /\ NoModule

\* out = _undo_cmd(line)
UndoCall ==
    /\ pc = "call"
    /\ IF _undo_cmd_raises(line)
       THEN pc' = "raised" /\ out' = out
       ELSE pc' = "returned" /\ out' = _undo_cmd(line)
    /\ UNCHANGED <<hostVars, line, line2, callVars, moduleVars>>

NextUndo == UndoCall

SpecUndo == InitUndo /\ [][NextUndo]_vars

\* the shapes of line the device clears by itself on a change of port mode:
\* one of the heads below followed by at least one argument
IsAutoCleared(l) ==
    \/ /\ slice(split(l), 0, 3) \in {<<"port", "trunk", "allow-pass">>,
                                     <<"port", "hybrid", "allow-pass">>,
                                     <<"port", "hybrid", "tagged">>}
       /\ Len(split(l)) > 4
    \/ /\ slice(split(l), 0, 4) \in {<<"port", "trunk", "pvid", "vlan">>,
                                     <<"port", "hybrid", "pvid", "vlan">>}
       /\ Len(split(l)) > 4

\* C10: auto-cleared attributes have an empty undo: _undo_cmd returns "" for
\* every port trunk allow-pass, port trunk pvid vlan, port hybrid pvid vlan and
\* port hybrid tagged/untagged vlan line
AutoClearedUndoEmpty ==
    (pc = "returned" /\ IsAutoCleared(line)) => out = ""

\* the tokens toks start with the tokens p
pre(toks, p) == Len(toks) >= Len(p) /\ SubSeq(toks, 1, Len(p)) = p

\* the heads of the dispatch table that take an argument, in table order
ArgHeads ==
    <<<<"port", "default", "vlan">>, <<"port">>, <<"dns", "server", "ipv6">>,
      <<"dns", "server">>, <<"clock", "timezone">>, <<"ntp", "unicast-server">>,
      <<"ntp", "server", "source-interface">>, <<"ssh", "user">>,
      <<"rsa", "peer-public-key">>, <<"local-user">>>>

\* a well-formed line: it has a token, and where it starts with a head that
\* takes an argument, the argument is there, a port link-type line has the
\* mode and nothing else; the shapes of C10 are left out
WellFormedUndo(l) ==
    /\ split(l) # <<>>
    /\ ~IsAutoCleared(l)
    /\ ~pre(split(l), <<"port", "trunk", "allow-pass">>)
    /\ ~pre(split(l), <<"port", "trunk", "pvid">>)
    /\ ~pre(split(l), <<"port", "hybrid">>)
    /\ pre(split(l), <<"port", "link-type">>) => Len(split(l)) = 3
    /\ \A i \in DOMAIN ArgHeads :
          pre(split(l), ArgHeads[i]) => Len(split(l)) > Len(ArgHeads[i])

\* the undo the dispatch table gives for the tokens of a well-formed line
TableUndo(toks) ==
    IF pre(toks, <<"port", "link-type">>) /\ Len(toks) = 3
    THEN "undo port link-type"
    ELSE IF pre(toks, <<"port", "default", "vlan">>) THEN "undo port default vlan"
    ELSE IF pre(toks, <<"port">>)
    THEN "undo " \o join(SubSeq(toks, 1, Len(toks) - 1))
    ELSE IF pre(toks, <<"ip", "domain-name">>) THEN "undo ip domain-name"
    ELSE IF pre(toks, <<"dns", "server", "ipv6">>)
    THEN "undo dns server ipv6 " \o toks[4]
    ELSE IF pre(toks, <<"dns", "server">>) THEN "undo dns server " \o toks[3]
    ELSE IF pre(toks, <<"clock", "timezone">>)
    THEN "undo clock timezone " \o toks[3]
    ELSE IF pre(toks, <<"clock", "daylight-saving-time">>)
    THEN "undo clock daylight-saving-time"
    ELSE IF pre(toks, <<"ntp", "unicast-server">>)
    THEN "undo ntp unicast-server " \o toks[3]
    ELSE IF pre(toks, <<"ntp", "server", "disable">>)
    THEN "undo ntp server disable"
    ELSE IF pre(toks, <<"ntp", "ipv6", "server", "disable">>)
    THEN "undo ntp ipv6 server disable"
    ELSE IF pre(toks, <<"ntp", "server", "source-interface">>)
    THEN "undo ntp server source-interface " \o toks[4]
    ELSE IF pre(toks, <<"ssh", "user">>) THEN "undo ssh user " \o toks[3]
    ELSE IF pre(toks, <<"rsa", "peer-public-key">>)
    THEN "undo rsa peer-public-key " \o toks[3]
    ELSE IF pre(toks, <<"local-user">>) THEN "undo local-user " \o toks[2]
    ELSE IF pre(toks, <<"stp", "edged-port", "enable">>)
    THEN "undo stp edged-port"
    ELSE IF pre(toks, <<"stp", "bpdu-protection">>)
    THEN "undo stp bpdu-protection"
    ELSE "undo " \o toks[1]

-----------------------------------------------------------------------------
(* A VLAN list built from trunk_vlans compared with the device's line      *)

MaxVlans == 3

\* VLAN tokens as the module parameter writes them
VlanTokens == {"10", "10-12", "20"}

\* the same tokens as a configuration line may write them
VlanWritten == VlanTokens \cup {"10 to 12"}

\* ",".join(tokens)
RECURSIVE comma_join(_)
comma_join(toks) ==
    IF toks = <<>> THEN ""
    ELSE IF Len(toks) = 1 THEN toks[1]
    ELSE toks[1] \o "," \o comma_join(Tail(toks))

\* the token a written form stands for
token_of(w) == replace(w, " to ", "-")

\* the number of elements of seq equal to x
RECURSIVE count(_, _)
count(seq, x) ==
    IF seq = <<>> THEN 0
    ELSE (IF seq[1] = x THEN 1 ELSE 0) + count(Tail(seq), x)

\* ws lists the tokens toks, in any order
SameTokens(ws, toks) ==
    /\ Len(ws) = Len(toks)
    /\ \A x \in VlanTokens :
          count([i \in DOMAIN ws |-> token_of(ws[i])], x) = count(toks, x)

vlan_prefix(mode) ==
    IF mode = "trunk" THEN "port trunk allow-pass vlan "
    ELSE "port hybrid tagged vlan "

InitVlan ==
    /\ NoHost
    /\ pc = "idle"
    /\ \E toks \in SeqsUpTo(VlanTokens, MaxVlans) \ {<<>>} :
       \E ws \in SeqsUpTo(VlanWritten, MaxVlans) :
       \E mode \in {"trunk", "hybrid"} :
          /\ SameTokens(ws, toks)
          /\ params = ("port_mode" :> mode) @@ ("trunk_vlans" :> comma_join(toks))
          /\ line2 = vlan_prefix(mode) \o join(ws)
          /\ running = <<"interface GE1", " port link-type " \o mode, " " \o line2>>
    /\ parents = <<"interface GE1">>
    /\ line = "" /\ out = ""
    /\ cand = <<>> /\ state = "" /\ keep = <<>> /\ save_when = ""
    /\ cmds = <<>> /\ cmds0 = <<>> /\ changed = FALSE /\ cli = <<>>
    /\ check_mode = FALSE /\ module = "" /\ sent = <<>>

\* body = build_interface_lines(p); line is the VLAN list line of the body
VlanBuild ==
    /\ pc = "idle"
    /\ cand' = build_interface_lines(params)
    /\ line' = _l2_lines(params)[2]
    /\ pc' = "built"
    /\ UNCHANGED <<hostVars, line2, out, running, parents, state, keep, save_when, cmds,
                   cmds0, changed, cli, moduleVars>>

\* diff_line_match(running, parents, body, state, []) for present and replace
VlanDiff ==
    /\ pc = "built"
    /\ \E st \in {"present", "replace"} :
          /\ state' = st
          /\ IF diff_line_match_raises(running, parents, cand, st, <<>>)
             THEN pc' = "raised" /\ cmds' = cmds
             ELSE /\ pc' = "diffed"
                  /\ cmds' = diff_line_match(running, parents, cand, st, <<>>)
    /\ UNCHANGED <<hostVars, line, line2, out, running, parents, cand, keep, save_when,
                   cmds0, changed, cli, moduleVars>>

NextVlan == VlanBuild \/ VlanDiff

SpecVlan == InitVlan /\ [][NextVlan]_vars

\* the starting values of the tokens of trunk_vlans are pairwise distinct
DistinctStarts ==
    LET toks == comma_split(params["trunk_vlans"]) IN
    \A i, j \in DOMAIN toks : i # j => vlan_key(toks[i]) # vlan_key(toks[j])

\* C9 as stated: two VLAN list lines with the same tokens in any order, ranges
\* written "a to b" or "a-b", have equal normalised forms and the diff yields no
\* command for the line
VlanSameTokensEqual ==
    /\ pc = "built" => _norm(line) = _norm(line2)
    /\ pc = "diffed" => cmds = <<>>

\* C9 as amended: the same, for lists whose tokens have pairwise distinct
\* starting values
VlanDistinctStartsEqual ==
    DistinctStarts =>
        /\ pc # "raised"
        /\ pc = "built" => _norm(line) = _norm(line2)
        /\ pc = "diffed" => cmds = <<>>

\* C9 witness: trunk_vlans="10-12,20" built as "10 to 12 20" and diffed against
\* the block line "port trunk allow-pass vlan 20 10-12"
VlanWitness ==
    /\ pc = "diffed"
    /\ params["trunk_vlans"] = "10-12,20"
    /\ line = "port trunk allow-pass vlan 10 to 12 20"
    /\ line2 = "port trunk allow-pass vlan 20 10-12"
    /\ cmds = <<>>

-----------------------------------------------------------------------------
(* diff_line_match on an interface block; in replace mode its commands are *)
(* applied to the block and the diff is run again                          *)

MaxChildren == 2
MaxCand == 2

\* child lines of the block "interface GE1" as the device prints them
ChildLines ==
    <<" description Old", " port link-type access", " port link-type trunk",
      " shutdown", " undo shutdown">>

\* candidate lines: outputs of the interface builders
CandLines ==
    {"undo description", "port link-type access", "shutdown", "undo shutdown"}

KeepLists == {<<>>, <<"shutdown">>}

\* the elements of seq at the positions in I, in the order of seq
RECURSIVE pick(_, _)
pick(seq, I) ==
    IF seq = <<>> THEN <<>>
    ELSE pick(SubSeq(seq, 1, Len(seq) - 1), I)
         \o (IF Len(seq) \in I THEN <<seq[Len(seq)]>> ELSE <<>>)

NoDup(seq) == \A i, j \in DOMAIN seq : i # j => seq[i] # seq[j]

Blocks ==
    {pick(ChildLines, I) :
        I \in {J \in SUBSET DOMAIN ChildLines : Cardinality(J) <= MaxChildren}}

CandLists == {cs \in SeqsUpTo(CandLines, MaxCand) : NoDup(cs)}

\* a running configuration whose block "interface GE1" has the given children;
\* exists = FALSE leaves the block out
config(children, exists) ==
    <<"sysname X">>
    \o (IF exists THEN <<"interface GE1">> \o children ELSE <<>>)
    \o <<"interface GE2", " shutdown">>

InitDiff ==
    /\ NoHost
    /\ pc = "call"
    /\ \E children \in Blocks : \E exists \in BOOLEAN :
          /\ exists \/ children = <<>>
          /\ running = config(children, exists)
    /\ parents = <<"interface GE1">>
    /\ cand \in CandLists
    /\ state \in {"present", "absent", "replace"}
    /\ keep \in KeepLists
    /\ state # "replace" => keep = <<>>
    /\ cmds = <<>> /\ cmds0 = <<>>
    /\ NoLines
    /\ save_when = "" /\ changed = FALSE /\ cli = <<>>
    /\ NoModule

\* cmds = diff_line_match(running, parents, cand, state, keep)
Diff ==
    /\ pc = "call"
    /\ IF diff_line_match_raises(running, parents, cand, state, keep)
       THEN pc' = "raised" /\ cmds' = cmds
       ELSE /\ pc' = "diffed"
            /\ cmds' = diff_line_match(running, parents, cand, state, keep)
    /\ UNCHANGED <<hostVars, line, line2, out, running, parents, cand, state, keep,
                   save_when, cmds0, changed, cli, moduleVars>>

\* the block of par[1] in run with its children replaced; a block that does not
\* exist is created at the end when there are children to hold
put(run, par, se, children) ==
    IF se[1] >= 0
    THEN SubSeq(run, 1, se[1] + 1) \o children \o SubSeq(run, se[2] + 1, Len(run))
    ELSE IF children = <<>> THEN run
    ELSE run \o <<par[1]>> \o children

\* a command as a child line of the block
as_line(c) == " " \o strip(c)

\* the children after a replace, as the idempotence property applies it: each
\* emitted undo removes the line it was derived from, each emitted candidate
\* line is added to the block
settle(children, removals, emitted) ==
    SelectSeq(children, LAMBDA l : ~(_norm(l) \in removals /\ _undo_cmd(l) # ""))
    \o [i \in DOMAIN emitted |-> as_line(emitted[i])]

settle_block(children, rbn, cs, kp) ==
    settle(children, (DOMAIN rbn \ norms(cs)) \ norms(kp),
           cand_loop(cs, rbn, "replace"))

\* the running configuration after the output of a replace was applied to it
applied(run, par, cs, kp) ==
    put(run, par, find_parent_block(run, par),
        settle_block(blk_children(run, par),
                     raw_by_norm(blk_children(run, par)), cs, kp))

\* the effect of one command on the children of a device's block: an undo
\* command removes the lines it is the undo of and is not stored, any other
\* command is stored as a line
apply_cmd(children, c) ==
    IF startswith(_norm(c), "undo")
    THEN SelectSeq(children, LAMBDA l : _norm(_undo_cmd(l)) # _norm(c))
    ELSE IF \E i \in DOMAIN children : _norm(children[i]) = _norm(c)
    THEN children
    ELSE Append(children, as_line(c))

RECURSIVE apply_cmds(_, _)
apply_cmds(children, cs) ==
    IF cs = <<>> THEN children
    ELSE apply_cmds(apply_cmd(children, cs[1]), Tail(cs))

\* the running configuration of a device after it executed the commands
executed(run, par, cs) ==
    put(run, par, find_parent_block(run, par),
        apply_cmds(blk_children(run, par), cs))

\* the output of a replace is applied to the running configuration
Apply ==
    /\ pc = "diffed"
    /\ state = "replace"
    /\ running' = applied(running, parents, cand, keep)
    /\ cmds0' = cmds
    /\ pc' = "applied"
    /\ UNCHANGED <<hostVars, line, line2, out, parents, cand, state, keep, save_when,
                   cmds, changed, cli, moduleVars>>

\* a device executes the commands of a replace
Execute ==
    /\ pc = "diffed"
    /\ state = "replace"
    /\ running' = executed(running, parents, cmds)
    /\ cmds0' = cmds
    /\ pc' = "applied"
    /\ UNCHANGED <<hostVars, line, line2, out, parents, cand, state, keep, save_when,
                   cmds, changed, cli, moduleVars>>

\* diff_line_match again, on the resulting configuration
Rediff ==
    /\ pc = "applied"
    /\ IF diff_line_match_raises(running, parents, cand, state, keep)
       THEN pc' = "raised" /\ cmds' = cmds
       ELSE /\ pc' = "rediffed"
            /\ cmds' = diff_line_match(running, parents, cand, state, keep)
    /\ UNCHANGED <<hostVars, line, line2, out, running, parents, cand, state, keep,
                   save_when, cmds0, changed, cli, moduleVars>>

NextDiff == Diff \/ Apply \/ Execute \/ Rediff

SpecDiff == InitDiff /\ [][NextDiff]_vars

\* C1: replace-mode reconciliation is idempotent: after the commands of a
\* replace were applied to the running configuration, diff_line_match with the
\* same candidates returns an empty command list
ReplaceIdempotent == pc = "rediffed" => cmds = <<>>

\* C2: in replace mode "undo port link-type" comes after every other command
\* that starts with "undo" and before every command that does not
UndoLinkTypeOrdered ==
    (pc = "diffed" /\ state = "replace") =>
        \A i \in DOMAIN cmds :
            cmds[i] = "undo port link-type" =>
                \A j \in DOMAIN cmds \ {i} :
                    IF startswith(cmds[j], "undo") THEN j < i ELSE i < j

\* the child lines of the block the call locates
located == blk_children(running, parents)

\* the block has a "port link-type <mode>" line with a mode other than access
OtherLinkType ==
    \E i \in DOMAIN located :
        /\ Len(split(located[i])) = 3
        /\ slice(split(located[i]), 0, 2) = <<"port", "link-type">>
        /\ split(located[i])[3] # "access"

\* the block has the line "shutdown"
HasShutdown == \E i \in DOMAIN located : split(located[i]) = <<"shutdown">>

\* C4: in present and replace mode a candidate normalising to
\* "port link-type access" is emitted iff the block has a port link-type line
\* with a different mode, and one normalising to "undo shutdown" iff the block
\* has the line "shutdown"
SpecialCaseSuppression ==
    (pc = "diffed" /\ state \in {"present", "replace"}) =>
        \A i \in DOMAIN cand :
            /\ _norm(cand[i]) = "port link-type access" =>
                  (cand[i] \in Range(cmds) <=> OtherLinkType)
            /\ _norm(cand[i]) = "undo shutdown" =>
                  (cand[i] \in Range(cmds) <=> HasShutdown)

\* C4 witness: the block already has "port link-type access" and
\* "undo shutdown", the candidates repeat both, neither is emitted
SuppressionWitness ==
    /\ pc = "diffed"
    /\ state = "replace"
    /\ located = <<" port link-type access", " undo shutdown">>
    /\ cand = <<"port link-type access", "undo shutdown">>
    /\ cmds = <<>>

\* diff_line_match in its three modes on blocks that hold a line without undo

ModeChildLines ==
    <<" description Old", " port link-type access", " port link-type trunk",
      " port trunk allow-pass vlan 10", " shutdown">>

ModeCandLines ==
    {"port link-type access", "port trunk allow-pass vlan 10", "shutdown",
     "undo shutdown"}

ModeBlocks ==
    {pick(ModeChildLines, I) :
        I \in {J \in SUBSET DOMAIN ModeChildLines : Cardinality(J) <= MaxChildren}}

ModeCandLists == {cs \in SeqsUpTo(ModeCandLines, MaxCand) : NoDup(cs)}

InitModes ==
    /\ NoHost
    /\ pc = "call"
    /\ \E children \in ModeBlocks : \E exists \in BOOLEAN :
          /\ exists \/ children = <<>>
          /\ running = config(children, exists)
    /\ parents = <<"interface GE1">>
    /\ cand \in ModeCandLists
    /\ state \in {"present", "absent", "replace"}
    /\ keep \in KeepLists
    /\ state # "replace" => keep = <<>>
    /\ cmds = <<>> /\ cmds0 = <<>>
    /\ NoLines
    /\ save_when = "" /\ changed = FALSE /\ cli = <<>>
    /\ NoModule

NextModes == Diff

SpecModes == InitModes /\ [][NextModes]_vars

\* the positions of the child lines a replace has to remove: the normal form is
\* neither that of a candidate nor that of a keep line, and the undo is not empty
Removed ==
    {i \in DOMAIN located :
        /\ _norm(located[i]) \notin norms(cand) \cup norms(keep)
        /\ _undo_cmd(located[i]) # ""}

\* f lists the positions in Removed, each once, in the lexicographic order of
\* the normal forms of their lines
OrdersRemoved(f) ==
    /\ Range(f) = Removed
    /\ \A a, b \in DOMAIN f :
          a < b => str_lt(_norm(located[f[a]]), _norm(located[f[b]]))

\* C12: in replace mode the command list starts with the undo of exactly the
\* child lines of the located block whose normal form is neither that of a
\* candidate nor that of a keep line and whose undo is not empty, in the
\* lexicographic order of the normal forms; what follows are candidates, so
\* no removal undo is emitted for a line matching a candidate or a keep line
ReplaceRemovals ==
    (pc = "diffed" /\ state = "replace") =>
        \E f \in [1..Cardinality(Removed) -> DOMAIN located] :
            /\ OrdersRemoved(f)
            /\ Len(cmds) >= Len(f)
            /\ \A k \in DOMAIN f : cmds[k] = _undo_cmd(located[f[k]])
            /\ \E I \in SUBSET DOMAIN cand :
                  SubSeq(cmds, Len(f) + 1, Len(cmds)) = pick(cand, I)

\* C12 witness: two lines are removed in the order of their normal forms
ReplaceRemovalsWitness ==
    /\ pc = "diffed"
    /\ state = "replace"
    /\ located = <<" description Old", " shutdown">>
    /\ cand = <<>>
    /\ keep = <<>>
    /\ cmds = <<"undo description", "undo shutdown">>

\* C12, the exemptions: the kept line stays, the other line is removed
KeptLineWitness ==
    /\ pc = "diffed"
    /\ state = "replace"
    /\ located = <<" description Old", " shutdown">>
    /\ keep = <<"shutdown">>
    /\ cand = <<"port link-type access">>
    /\ cmds = <<"undo description">>

\* the candidate is one of the two special-cased lines
IsSpecial(c) == _norm(c) \in {"port link-type access", "undo shutdown"}

\* the positions of the candidates whose normal form is not among the normal
\* forms of the child lines of the located block
Missing == {i \in DOMAIN cand : _norm(cand[i]) \notin norms(located)}

\* C13: in present mode the command list is made of candidates, verbatim and in
\* candidate order; a candidate other than the two special-cased ones is in it
\* iff its normal form is not among the normal forms of the child lines of the
\* located block, so no command is derived from an existing line
PresentIgnoresExtras ==
    (pc = "diffed" /\ state = "present") =>
        \E I \in SUBSET DOMAIN cand :
            /\ cmds = pick(cand, I)
            /\ \A i \in DOMAIN cand : ~IsSpecial(cand[i]) => (i \in I <=> i \in Missing)

\* C13 witness: the block holds two lines that are not candidates, the one
\* candidate is missing and is the only command
PresentWitness ==
    /\ pc = "diffed"
    /\ state = "present"
    /\ located = <<" description Old", " port link-type trunk">>
    /\ cand = <<"shutdown">>
    /\ cmds = <<"shutdown">>

\* the child line of the located block with the normal form of candidate c
matching(c) == CHOOSE l \in Range(located) : _norm(l) = _norm(c)

\* the positions of the candidates that are present in the located block with
\* a non-empty undo
Undone ==
    {i \in DOMAIN cand :
        /\ _norm(cand[i]) \in norms(located)
        /\ _undo_cmd(matching(cand[i])) # ""}

\* C14: in absent mode the command list holds, in candidate order, the undo of
\* the matching child line for each candidate present in the located block
\* whose undo is not empty, and nothing else
AbsentUndoes ==
    (pc = "diffed" /\ state = "absent") =>
        /\ Len(cmds) = Cardinality(Undone)
        /\ \A k \in DOMAIN cmds :
              cmds[k] = _undo_cmd(matching(pick(cand, Undone)[k]))

\* C14 witness: of two candidates one is in the block, next to a line that is no
\* candidate; its undo is the only command
AbsentWitness ==
    /\ pc = "diffed"
    /\ state = "absent"
    /\ located = <<" description Old", " shutdown">>
    /\ cand = <<"port link-type access", "shutdown">>
    /\ cmds = <<"undo shutdown">>

-----------------------------------------------------------------------------
(* diff_and_wrap as the modules call it                                    *)

\* the blocks of at most one child line
SmallBlocks == {b \in Blocks : Len(b) <= 1}

ParentPaths == {<<>>, <<"interface GE1">>, <<"interface GE1", "stp">>}

InitWrap ==
    /\ NoHost
    /\ pc = "call"
    /\ running \in {config(b, TRUE) : b \in SmallBlocks}
    /\ parents \in ParentPaths
    /\ cand \in CandLists
    /\ save_when \in {"never", "changed", "always"}
    /\ state \in {"", "present", "absent"}
    /\ keep = <<>>
    /\ cmds = <<>> /\ cmds0 = <<>> /\ changed = FALSE /\ cli = <<>>
    /\ NoLines /\ NoModule

\* changed, cli = r
Returned(r) == changed' = r[1] /\ cli' = r[2]

\* changed, cli = diff_and_wrap(conn, parents, cand, save_when, state=state),
\* state "" being state=None with the default replace=True; cmds records the
\* body the call computed
Wrap ==
    /\ pc = "call"
    /\ IF diff_and_wrap_raises(running, parents, cand, save_when, TRUE, keep, state)
       THEN pc' = "raised" /\ UNCHANGED <<cmds, changed, cli>>
       ELSE /\ pc' = "wrapped"
            /\ cmds' = diff_line_match(running, parents, cand,
                                        desired_state(state, TRUE), keep)
            /\ Returned(diff_and_wrap(running, parents, cand, save_when, TRUE,
                                      keep, state))
    /\ UNCHANGED <<hostVars, line, line2, out, running, parents, cand, state, keep,
                   save_when, cmds0, moduleVars>>

NextWrap == Wrap

SpecWrap == InitWrap /\ [][NextWrap]_vars

\* the command list the wrapper is to build around a non-empty body
Wrapped(par, body, sw) ==
    <<Plain("system-view")>>
    \o [i \in DOMAIN par |-> Plain(par[i])]
    \o [i \in DOMAIN body |-> Plain(body[i])]
    \o [i \in 1..(Len(par) + 1) |-> Plain("return")]
    \o (IF sw \in {"changed", "always"} THEN <<SaveCmd>> ELSE <<>>)

\* C5: diff_and_wrap returns (False, []) when the diff body is empty, for every
\* save_when; otherwise (True, system-view, the parents, the body, one return
\* per parent plus one, and the save record unless save_when is never)
WrapResult ==
    pc = "wrapped" =>
        IF cmds = <<>> THEN ~changed /\ cli = <<>>
        ELSE changed /\ cli = Wrapped(parents, cmds, save_when)

\* C5 witness: a non-empty body under two parents with save_when never, four
\* commands and three returns
WrapWitness ==
    /\ pc = "wrapped"
    /\ Len(parents) = 2
    /\ Len(cmds) = 1
    /\ save_when = "never"
    /\ changed
    /\ Len(cli) = 7
    /\ cli[7] = Plain("return")

\* C5 witness: an empty body with save_when always returns (False, [])
WrapNoopWitness ==
    /\ pc = "wrapped" /\ cmds = <<>> /\ save_when = "always"
    /\ ~changed /\ cli = <<>>

\* C6: with save_when always the save command is appended on every call, also
\* when the diff produced no body command; with save_when changed only when the
\* body is not empty
SaveAlwaysAppended ==
    pc = "wrapped" =>
        /\ save_when = "always" => SaveCmd \in Range(cli)
        /\ save_when = "changed" => (SaveCmd \in Range(cli) <=> cmds # <<>>)

-----------------------------------------------------------------------------
(* Module runs: vrp_interface                                              *)

\* conn.run_commands("display current-configuration")
Fetch == <<Plain("display current-configuration")>>

\* a parameter that may be left out: the empty function when v is not given
opt(k, given, v) == IF given THEN (k :> v) ELSE <<>>

InterfaceParams ==
    {("name" :> "GE1") @@ ("state" :> st) @@ ("save_when" :> sw)
     @@ ("stp_edged" :> se) @@ d @@ a @@ m @@ v @@ tv @@ nv :
        st \in {"present", "absent"},
        sw \in {"never", "changed", "always"},
        se \in BOOLEAN,
        d \in {<<>>, "description" :> "", "description" :> "Client"},
        a \in {<<>>, "admin_state" :> "up", "admin_state" :> "down"},
        m \in {<<>>, "port_mode" :> "access", "port_mode" :> "trunk",
               "port_mode" :> "hybrid"},
        v \in {<<>>, "vlan" :> 20},
        tv \in {<<>>, "trunk_vlans" :> "10-12,20"},
        nv \in {<<>>, "native_vlan" :> 99}}

\* _validate_params calls module.fail_json
_validate_params_fails(p) ==
    LET mode == IF has(p, "port_mode") THEN p["port_mode"] ELSE "" IN
    \/ /\ mode = "access"
       /\ \/ has(p, "trunk_vlans") /\ p["trunk_vlans"] # ""
          \/ has(p, "native_vlan") /\ p["native_vlan"] # 0
    \/ mode \in {"trunk", "hybrid"} /\ has(p, "vlan")
    \/ has(p, "stp_edged") /\ p["stp_edged"] /\ mode # "access"

\* body of vrp_interface.main: the desired child lines
interface_body(p) ==
    IF p["state"] = "absent" THEN <<"shutdown">> ELSE build_interface_lines(p)

Init ==
    /\ NoHost
    /\ pc = "start"
    /\ params \in InterfaceParams
    /\ check_mode \in BOOLEAN
    /\ module = "vrp_interface"
    /\ running \in {config(<<>>, FALSE),
                    config(<<" port link-type access", " undo shutdown">>, TRUE)}
    /\ sent = <<>>
    /\ parents = <<>> /\ cand = <<>> /\ state = "" /\ keep = <<>>
    /\ save_when = "" /\ cmds = <<>> /\ cmds0 = <<>>
    /\ changed = FALSE /\ cli = <<>>
    /\ NoLines

\* vrp_interface.main ends in _validate_params: fail_json, nothing is sent
InterfaceFail ==
    /\ pc = "start"
    /\ _validate_params_fails(params)
    /\ pc' = "failed"
    /\ UNCHANGED <<hostVars, line, line2, out, callVars, moduleVars>>

\* the command list is sent whenever it changes something
send_always(r) ==
    sent' = IF r[1] THEN sent \o <<Fetch, r[2]>> ELSE Append(sent, Fetch)

\* vrp_interface.main past _validate_params: diff_and_wrap fetches the running
\* configuration, and the command list is sent when it changed something and
\* the run is not in check mode
\* if module.check_mode: module.exit_json(...); otherwise
\* conn.run_commands(cli_cmds) when changed
Send(r) ==
    sent' = IF r[1] /\ ~check_mode THEN sent \o <<Fetch, r[2]>>
            ELSE Append(sent, Fetch)

InterfaceMain ==
    /\ pc = "start"
    /\ ~_validate_params_fails(params)
    /\ parents' = <<"interface " \o params["name"]>>
    /\ cand' = interface_body(params)
    /\ state' = "replace"
    /\ save_when' = params["save_when"]
    /\ keep' = <<>>
    /\ IF diff_and_wrap_raises(running, parents', cand', save_when', TRUE, <<>>,
                               "replace")
       THEN /\ pc' = "raised"
            /\ sent' = Append(sent, Fetch)
            /\ UNCHANGED <<cmds, changed, cli>>
       ELSE /\ pc' = "done"
            /\ cmds' = diff_line_match(running, parents', cand', "replace", <<>>)
            /\ Returned(diff_and_wrap(running, parents', cand', save_when', TRUE,
                                      <<>>, "replace"))
            /\ Send(<<changed', cli'>>)
    /\ UNCHANGED <<hostVars, line, line2, out, running, cmds0, params, check_mode, module>>

Next == InterfaceFail \/ InterfaceMain

Spec == Init /\ [][Next]_vars

\* the parameters of the access port scenario
AccessPortParams(p) ==
    /\ has(p, "port_mode") /\ p["port_mode"] = "access"
    /\ has(p, "vlan") /\ p["vlan"] = 20
    /\ has(p, "description") /\ p["description"] = "Client"
    /\ has(p, "admin_state") /\ p["admin_state"] = "up"
    /\ ~has(p, "trunk_vlans")
    /\ p["state"] = "present"
    /\ p["save_when"] = "changed"

\* C3: access port creation: with no block of the interface in the running
\* configuration the body is description Client, port link-type access,
\* port default vlan 20, undo shutdown, wrapped in system-view, the interface
\* line, two returns and one save command
AccessPortCreation ==
    (/\ pc = "done"
     /\ AccessPortParams(params)
     /\ find_parent_block(running, parents)[1] = -1) =>
        /\ cmds = <<"description Client", "port link-type access",
                    "port default vlan 20", "undo shutdown">>
        /\ cli = Wrapped(<<"interface GE1">>, cmds, "changed")

\* the port mode of the run, "" when port_mode is not given
ModeOf(p) == IF "port_mode" \in DOMAIN p THEN p["port_mode"] ELSE ""

\* the parameter set combines options the policy forbids: vlan outside access
\* mode, native_vlan outside trunk mode, trunk_vlans or native_vlan in access
\* mode, stp_edged outside access mode
PolicyViolation(p) ==
    \/ "vlan" \in DOMAIN p /\ ModeOf(p) # "access"
    \/ "native_vlan" \in DOMAIN p /\ ModeOf(p) # "trunk"
    \/ "trunk_vlans" \in DOMAIN p /\ ModeOf(p) = "access"
    \/ p["stp_edged"] /\ ModeOf(p) # "access"

\* C17: a vrp_interface run whose parameters violate the policy ends in a
\* failure result, and neither fetches the running configuration nor sends a
\* command
PolicyRejected ==
    PolicyViolation(params) => (pc \in {"start", "failed"} /\ sent = <<>>)

-----------------------------------------------------------------------------
(* Module runs: vrp_vlan                                                   *)

VlanIds == {10, 999}

VlanParams ==
    {("vlan_id" :> id) @@ ("state" :> st) @@ ("save_when" :> sw) @@ n :
        id \in VlanIds,
        st \in {"present", "absent"},
        sw \in {"never", "changed", "always"},
        n \in {<<>>, "name" :> "", "name" :> "Users"}}

\* running configurations: without a VLAN block, and with the block of VLAN 10
\* empty, named Users, or named Old
VlanConfigs ==
    {<<"sysname X", "interface GE1", " shutdown">>,
     <<"sysname X", "vlan 10", "interface GE1", " shutdown">>,
     <<"sysname X", "vlan 10", " name Users", "interface GE1", " shutdown">>,
     <<"sysname X", "vlan 10", " name Old", "interface GE1", " shutdown">>}

\* return [f"name {name}"] if name else []
_build_body(vlan_id, p) ==
    IF has(p, "name") /\ p["name"] # "" THEN <<"name " \o p["name"]>> ELSE <<>>

\* vlan_parent = f"vlan {p['vlan_id']}"
vlan_parent(p) == "vlan " \o to_str(p["vlan_id"])

\* the running configuration has the line of some VLAN
any_vlan_exists(run, p) ==
    \E i \in DOMAIN run : startswith(run[i], "vlan ")

\* vlan_exists = vlan_parent in running_cfg
vlan_exists(run, p) == \E i \in DOMAIN run : run[i] = vlan_parent(p)

\* commands = ["system-view", f"undo vlan {p['vlan_id']}", "return"];
\* vc.append_save(commands, p["save_when"], changed=True)
undo_vlan_commands(p) ==
    append_save(plain_list(<<"system-view",
                             "undo vlan " \o to_str(p["vlan_id"]), "return">>),
                p["save_when"], TRUE)

InitVlanModule ==
    /\ NoHost
    /\ pc = "start"
    /\ params \in VlanParams
    /\ check_mode \in BOOLEAN
    /\ module = "vrp_vlan"
    /\ running \in VlanConfigs
    /\ sent = <<>>
    /\ parents = <<>> /\ cand = <<>> /\ state = "" /\ keep = <<>>
    /\ save_when = "" /\ cmds = <<>> /\ cmds0 = <<>>
    /\ changed = FALSE /\ cli = <<>>
    /\ NoLines

\* exit_json of the branch state=absent
absent_exit(exists, commands) ==
    /\ changed' = exists
    /\ cli' = IF exists THEN commands ELSE <<>>
    /\ sent' = IF exists /\ ~check_mode THEN sent \o <<Fetch, commands>>
               ELSE Append(sent, Fetch)

\* vrp_vlan.main, state=absent: the running configuration is fetched; without
\* the VLAN line the module exits unchanged, otherwise the three commands and
\* the save are returned, and sent unless the run is in check mode
VlanAbsent ==
    /\ pc = "start"
    /\ params["state"] = "absent"
    /\ pc' = "done"
    /\ parents' = <<vlan_parent(params)>>
    /\ save_when' = params["save_when"]
    /\ absent_exit(vlan_exists(running, params), undo_vlan_commands(params))
    /\ UNCHANGED <<hostVars, line, line2, out, running, cand, state, keep, cmds, cmds0,
                   params, check_mode, module>>

\* vrp_vlan.main, state=present: diff_and_wrap with state="replace", keep=[]
VlanPresent ==
    /\ pc = "start"
    /\ params["state"] = "present"
    /\ parents' = <<vlan_parent(params)>>
    /\ cand' = _build_body(params["vlan_id"], params)
    /\ state' = "replace"
    /\ save_when' = params["save_when"]
    /\ IF diff_and_wrap_raises(running, parents', cand', save_when', TRUE, <<>>,
                               "replace")
       THEN /\ pc' = "raised"
            /\ sent' = Append(sent, Fetch)
            /\ UNCHANGED <<cmds, changed, cli>>
       ELSE /\ pc' = "done"
            /\ cmds' = diff_line_match(running, parents', cand', "replace", <<>>)
            /\ Returned(diff_and_wrap(running, parents', cand', save_when', TRUE,
                                      <<>>, "replace"))
            /\ Send(<<changed', cli'>>)
    /\ UNCHANGED <<hostVars, line, line2, out, running, keep, cmds0, params, check_mode, module>>

NextVlanModule == VlanAbsent \/ VlanPresent

SpecVlanModule == InitVlanModule /\ [][NextVlanModule]_vars

\* the running configuration has the line "vlan <id>" of the VLAN of the run
HasVlanLine ==
    \E i \in DOMAIN running : running[i] = "vlan " \o to_str(params["vlan_id"])

\* C15: a lookup miss enables first-time creation: vrp_vlan with state present
\* for a VLAN whose line is not in the running configuration does not fail and
\* returns changed = true with the line "vlan <id>" among the commands, with
\* or without a name
VlanCreation ==
    (params["state"] = "present" /\ ~HasVlanLine) =>
        /\ pc # "raised"
        /\ pc = "done" => (changed /\ Plain(vlan_parent(params)) \in Range(cli))

-----------------------------------------------------------------------------
(* Backups of the running configuration on the controller                  *)

MaxTime == 2
MaxBackups == 3

\* "\n".join(lines)
RECURSIVE join_lines(_)
join_lines(lines) ==
    IF lines = <<>> THEN ""
    ELSE IF Len(lines) = 1 THEN lines[1]
    ELSE lines[1] \o "\n" \o join_lines(Tail(lines))

\* hashlib.sha1(text.encode("utf-8")).hexdigest(): equal digests for equal
\* texts, different digests for the different texts of the model
_sha1(text) == <<"sha1", text>>

\* datetime.now().strftime("%Y%m%d-%H%M%S"), the clock counting the seconds
\* from 07:00:00 of one day
strftime(t) == "20251101-0700" \o (IF t < 10 THEN "0" ELSE "") \o to_str(t)

\* bdir = Path("backups")
bdir == "backups/"

\* the files of bdir whose name starts with prefix
prefixed(fs, prefix) == {f \in DOMAIN fs : startswith(f, bdir \o prefix)}

\* files[0] if files else None, the files sorted by st_mtime, latest first;
\* "" stands for None
_last_backup(fs, prefix) ==
    IF prefixed(fs, prefix) = {} THEN ""
    ELSE CHOOSE f \in prefixed(fs, prefix) :
            \A g \in prefixed(fs, prefix) : fs[g].mtime <= fs[f].mtime

\* the mtime of a file written now: later than that of every file written before
next_mtime(fs) == Max({0} \cup {fs[f].mtime : f \in DOMAIN fs}) + 1

\* path.write_text(text)
write_text(fs, path, text) ==
    [f \in DOMAIN fs \cup {path} |->
        IF f = path THEN [text |-> text, mtime |-> next_mtime(fs)] ELSE fs[f]]

\* A) user-defined path: identical = dst.is_file() and dst.read_text() == cfg_text
backup_user(fs, cfg_text, dst) ==
    IF dst \in DOMAIN fs /\ fs[dst].text = cfg_text
    THEN <<FALSE, dst, fs>>
    ELSE <<TRUE, dst, write_text(fs, dst, cfg_text)>>

\* the new file of the automatic path is written whatever the last backup holds
backup_always(fs, cfg_text, last, new_path) ==
    <<TRUE, new_path, write_text(fs, new_path, cfg_text)>>

\* B) automatic path: if last and _sha1(last.read_text()) == _sha1(cfg_text):
\* return False, str(last); otherwise new_path.write_text(cfg_text)
backup_auto(fs, cfg_text, last, new_path) ==
    IF last # "" /\ _sha1(fs[last].text) = _sha1(cfg_text)
    THEN <<FALSE, last, fs>>
    ELSE <<TRUE, new_path, write_text(fs, new_path, cfg_text)>>

\* backup_config(conn, do_backup, user_path, prefix) at time t on the files fs:
\* (changed, path, the files after the call); user_path "" stands for None
backup_config(fs, run, do_backup, user_path, prefix, t) ==
    IF ~do_backup THEN <<FALSE, "", fs>>
    ELSE IF user_path # "" THEN backup_user(fs, join_lines(run), user_path)
    ELSE backup_auto(fs, join_lines(run), _last_backup(fs, prefix),
                     bdir \o prefix \o strftime(t) \o ".cfg")

\* the running configurations the device goes through
BackupConfigs == {<<"sysname X">>, <<"sysname X", "vlan 10">>}

BackupParams == {<<>>, "backup_path" :> "router.cfg"}

InitBackup ==
    /\ pc = "start"
    /\ NoLines
    /\ running \in BackupConfigs
    /\ parents = <<>> /\ cand = <<>> /\ state = "" /\ keep = <<>>
    /\ save_when = "" /\ cmds = <<>> /\ cmds0 = <<>>
    /\ changed = FALSE /\ cli = <<>>
    /\ params \in BackupParams
    /\ check_mode = FALSE
    /\ module = "vrp_backup"
    /\ sent = <<>>
    /\ files = <<>> /\ now = 0 /\ backup_path = ""
    /\ attempt = 0 /\ history = <<>> /\ stdout = <<>> /\ failed_conditions = <<>>

\* changed, path = r[1], r[2]; the files are those the call left
BackedUp(r) == changed' = r[1] /\ backup_path' = r[2] /\ files' = r[3]

\* vrp_backup.main: backup_config(conn, do_backup=True,
\* user_path=module.params.get("backup_path"), prefix="vrp_")
BackupMain ==
    /\ pc \in {"start", "done"}
    /\ Len(sent) < MaxBackups
    /\ pc' = "done"
    /\ sent' = Append(sent, Fetch)
    /\ BackedUp(backup_config(files, running, TRUE,
                              IF has(params, "backup_path")
                              THEN params["backup_path"] ELSE "",
                              "vrp_", now))
    /\ UNCHANGED <<line, line2, out, running, parents, cand, state, keep,
                   save_when, cmds, cmds0, cli, params, check_mode, module, now, pollVars>>

\* the running configuration of the device changes between two runs
DeviceChange ==
    /\ pc = "done"
    /\ \E r \in BackupConfigs \ {running} : running' = r
    /\ pc' = "start"
    /\ UNCHANGED <<line, line2, out, parents, cand, state, keep, save_when, cmds,
                   cmds0, changed, cli, moduleVars, hostVars>>

\* a second passes on the controller
Tick ==
    /\ now < MaxTime
    /\ now' = now + 1
    /\ UNCHANGED <<pc, line, line2, out, callVars, moduleVars, files,
                   backup_path, pollVars>>

NextBackup == BackupMain \/ DeviceChange \/ Tick

SpecBackup == InitBackup /\ [][NextBackup]_vars

\* the text of the most recent backup at the location of the run: the file at
\* backup_path when one is given, otherwise the file of the directory backups
\* that was written last; <<>> when there is none
MostRecent ==
    IF has(params, "backup_path")
    THEN (IF params["backup_path"] \in DOMAIN files
          THEN <<files[params["backup_path"]].text>> ELSE <<>>)
    ELSE (IF DOMAIN files = {} THEN <<>>
          ELSE <<files[CHOOSE f \in DOMAIN files :
                         \A g \in DOMAIN files : files[g].mtime <= files[f].mtime].text>>)

\* C19: a backup call whose configuration text equals the most recent backup at
\* the location writes nothing and returns changed = false; a call with another
\* text writes the text and returns changed = true, and on the automatic path
\* it writes a file that did not exist, so that every backup file written before
\* keeps its text
BackupWriteOnce ==
    [][(pc' = "done" /\ sent' # sent) =>
        IF MostRecent = <<join_lines(running)>>
        THEN files' = files /\ ~changed'
        ELSE /\ changed'
             /\ backup_path' \in DOMAIN files'
             /\ files'[backup_path'].text = join_lines(running)
             /\ ~has(params, "backup_path") =>
                   /\ backup_path' \notin DOMAIN files
                   /\ \A f \in DOMAIN files : files'[f] = files[f]]_vars

\* C19, the deduplication alone: a call whose text equals the most recent backup
\* leaves the files as they are and returns changed = false
BackupDeduplicated ==
    [][(pc' = "done" /\ sent' # sent /\ MostRecent = <<join_lines(running)>>) =>
        (files' = files /\ ~changed')]_vars

-----------------------------------------------------------------------------
(* Module runs: vrp_config                                                 *)

ConfigLines == {<<>>, <<"shutdown">>, <<"description New", "undo shutdown">>}

ConfigParams ==
    {("lines" :> ls) @@ ("parents" :> ps) @@ ("state" :> st)
     @@ ("keep_lines" :> kp) @@ ("save_when" :> sw) @@ ("backup" :> b) @@ bp :
        ls \in ConfigLines,
        ps \in {<<"interface GE1">>},
        st \in {"present", "absent", "replace"},
        kp \in {<<>>, <<"shutdown">>},
        sw \in {"never", "changed", "always"},
        b \in BOOLEAN,
        bp \in {<<>>, "backup_path" :> "router.cfg"}}

\* the files a run finds: none, or the backups earlier runs left
ConfigFiles ==
    {<<>>,
     write_text(<<>>, "router.cfg", join_lines(config(<<" shutdown">>, TRUE))),
     write_text(<<>>, bdir \o "vrp_config_" \o strftime(0) \o ".cfg",
                join_lines(config(<<" shutdown">>, TRUE)))}

InitConfig ==
    /\ pc = "start"
    /\ NoLines
    /\ running \in {config(<<" shutdown">>, TRUE), config(<<>>, TRUE)}
    /\ parents = <<>> /\ cand = <<>> /\ state = "" /\ keep = <<>>
    /\ save_when = "" /\ cmds = <<>> /\ cmds0 = <<>>
    /\ changed = FALSE /\ cli = <<>>
    /\ params \in ConfigParams
    /\ params["state"] # "replace" => params["keep_lines"] = <<>>
    /\ check_mode \in BOOLEAN
    /\ module = "vrp_config"
    /\ sent = <<>>
    /\ files \in ConfigFiles
    /\ now = 1
    /\ backup_path = ""
    /\ attempt = 0 /\ history = <<>> /\ stdout = <<>> /\ failed_conditions = <<>>

\* cli_cmds = ["system-view"] + parents + body_cmds + ["return"] * (len(parents) + 1);
\* vc.append_save(cli_cmds, p["save_when"], changed=True)
config_cli(par, body_cmds, sw) ==
    append_save(<<Plain("system-view")>> \o plain_list(par)
                \o plain_list(body_cmds) \o returns(Len(par) + 1), sw, TRUE)

\* the batches a run sends: the fetch of load_running_config, the fetch of
\* backup_config when a backup is asked for, and in a live run the command list
\* when the configuration changes
config_sent(p, body_cmds, live) ==
    <<Fetch>>
    \o (IF p["backup"] THEN <<Fetch>> ELSE <<>>)
    \o (IF live /\ body_cmds # <<>>
        THEN <<config_cli(p["parents"], body_cmds, p["save_when"])>> ELSE <<>>)

\* vrp_config.main after the diff: the backup, then in check mode the call of
\* vc.finish_module, which vrp_common does not define (AttributeError), and in
\* a live run the command list and exit_json
config_finish(p, body_cmds, r) ==
    /\ cmds' = body_cmds
    /\ backup_path' = r[2]
    /\ files' = r[3]
    /\ sent' = config_sent(p, body_cmds, ~check_mode)
    /\ IF check_mode
       THEN pc' = "raised" /\ UNCHANGED <<changed, cli>>
       ELSE /\ pc' = "done"
            /\ changed' = (body_cmds # <<>> \/ r[1])
            /\ cli' = IF body_cmds # <<>>
                      THEN config_cli(p["parents"], body_cmds, p["save_when"])
                      ELSE <<>>

\* vrp_config.main
ConfigMain ==
    /\ pc = "start"
    /\ parents' = params["parents"]
    /\ cand' = params["lines"]
    /\ state' = params["state"]
    /\ keep' = params["keep_lines"]
    /\ save_when' = params["save_when"]
    /\ IF diff_line_match_raises(running, parents', cand', state', keep')
       THEN /\ pc' = "raised"
            /\ sent' = <<Fetch>>
            /\ UNCHANGED <<cmds, changed, cli, files, backup_path>>
       ELSE config_finish(params,
                          diff_line_match(running, parents', cand', state', keep'),
                          backup_config(files, running, params["backup"],
                                        IF has(params, "backup_path")
                                        THEN params["backup_path"] ELSE "",
                                        "vrp_config_", now))
    /\ UNCHANGED <<line, line2, out, running, cmds0, params, check_mode, module, now,
                   pollVars>>

NextConfig == ConfigMain

SpecConfig == InitConfig /\ [][NextConfig]_vars

\* a batch other than the fetch of the running configuration was sent
ConfigSent == \E i \in DOMAIN sent : sent[i] # Fetch

\* C18: in a live run of vrp_config the returned changed is true iff a
\* configuration command was sent to the device
ChangedIffSent ==
    (pc = "done" /\ ~check_mode) => (changed <=> ConfigSent)

-----------------------------------------------------------------------------
(* Module runs: vrp_command, the polling loop of run_module                *)

MaxRetries == 2
MaxConds == 2

\* str.partition(sep): (head, sep, tail) at the first occurrence of sep,
\* (s, "", "") when there is none
partition(s, sep) ==
    IF find(s, sep, 1) = 0 THEN <<s, "", "">>
    ELSE <<Take(s, find(s, sep, 1) - 1), sep,
           Drop(s, find(s, sep, 1) + Len(sep) - 1)>>

\* idx_str.strip()[len("result["): -1]
idx_text(idx_str) ==
    SubSeq(strip(idx_str), Len("result[") + 1, Len(strip(idx_str)) - 1)

Quotes == {"'", "\""}

\* str.strip('\'"')
RECURSIVE strip_quotes(_)
strip_quotes(s) ==
    IF s # "" /\ Ch(s, 1) \in Quotes THEN strip_quotes(Drop(s, 1))
    ELSE IF s # "" /\ Ch(s, Len(s)) \in Quotes
    THEN strip_quotes(Take(s, Len(s) - 1))
    ELSE s

\* text_val of conditions_met: text_val.lstrip(), and the quotes removed when
\* it starts with one
text_met(tail) ==
    IF lstrip(tail) # "" /\ Ch(lstrip(tail), 1) \in Quotes
    THEN strip_quotes(strip(lstrip(tail)))
    ELSE lstrip(tail)

\* text_val of the other two loops: text_val.lstrip().strip('\'"')
text_any(tail) == strip_quotes(lstrip(tail))

\* conditions_met(outputs): "true", "false", or "raise" for the IndexError of
\* outputs[idx]; the loop over wait_for
RECURSIVE conditions_loop(_, _, _)

\* if negate: text_val in outputs[idx] -> False; else: not in -> False
cond_test(negate, text_val, idx, rest, match, outputs) ==
    IF idx >= Len(outputs) THEN "raise"
    ELSE IF negate = contains(outputs[idx + 1], text_val) THEN "false"
    ELSE conditions_loop(rest, match, outputs)

\* try: idx = int(...) except Exception: continue
cond_parsed(cond, parts, rest, match, outputs) ==
    IF int_raises(idx_text(parts[1])) THEN conditions_loop(rest, match, outputs)
    ELSE cond_test(contains(lower(cond), " not contains "), text_met(parts[3]),
                   int(idx_text(parts[1])), rest, match, outputs)

\* cond = cond.strip(); if cond.lower().startswith("result") and
\* " contains " in cond: ... else: return False
cond_step(cond, rest, match, outputs) ==
    IF startswith(lower(cond), "result") /\ contains(cond, " contains ")
    THEN cond_parsed(cond, partition(cond, "contains"), rest, match, outputs)
    ELSE "false"

conditions_loop(wf, match, outputs) ==
    IF wf = <<>> THEN (IF match = "all" THEN "true" ELSE "false")
    ELSE cond_step(strip(wf[1]), Tail(wf), match, outputs)

conditions_met(wf, match, outputs) ==
    IF wf = <<>> THEN "true" ELSE conditions_loop(wf, match, outputs)

\* the loop of match == 'any': "true" when any_met, "false" when not, "raise"
\* for the ValueError of int() or the IndexError of outputs[idx]
RECURSIVE any_loop(_, _)

any_test(parts, negate, rest, outputs) ==
    IF int_raises(idx_text(parts[1])) THEN "raise"
    ELSE IF int(idx_text(parts[1])) >= Len(outputs) THEN "raise"
    ELSE IF negate # contains(outputs[int(idx_text(parts[1])) + 1],
                              text_any(parts[3]))
    THEN "true"
    ELSE any_loop(rest, outputs)

any_loop(wf, outputs) ==
    IF wf = <<>> THEN "false"
    ELSE IF contains(lower(wf[1]), " not contains ")
    THEN any_test(partition(wf[1], "not contains"), TRUE, Tail(wf), outputs)
    ELSE IF contains(lower(wf[1]), " contains ")
    THEN any_test(partition(wf[1], "contains"), FALSE, Tail(wf), outputs)
    ELSE any_loop(Tail(wf), outputs)

\* the outcome of one iteration after run_commands returned outputs
attempt_result(wf, match, outputs) ==
    IF conditions_met(wf, match, outputs) # "false"
    THEN conditions_met(wf, match, outputs)
    ELSE IF match = "any" THEN any_loop(wf, outputs)
    ELSE "false"

\* the else clause of the for loop: int() or stdout[idx] raises for a condition
unmet_raises(wf, so) ==
    \E k \in DOMAIN wf :
        /\ contains(lower(wf[k]), " contains ")
        /\ \/ int_raises(idx_text(partition(wf[k], "contains")[1]))
           \/ int(idx_text(partition(wf[k], "contains")[1])) >= Len(so)

\* a condition of the else clause is appended to failed_conditions
is_unmet(c, so) ==
    IF contains(lower(c), " contains ")
    THEN contains(lower(c), " not contains ")
         = contains(so[int(idx_text(partition(c, "contains")[1])) + 1],
                    text_any(partition(c, "contains")[3]))
    ELSE TRUE

unmet(wf, so) == SelectSeq(wf, LAMBDA c : is_unmet(c, so))

\* wait_for conditions and the outputs of the one command of the batch
Conds ==
    {"result[0] contains up", "result[0] not contains down",
     "result[1] contains up"}

Outputs == {<<"link up">>, <<"link down">>}

Commands == <<Plain("display interface brief")>>

CommandParams ==
    {("commands" :> Commands) @@ ("wait_for" :> wf) @@ ("match" :> m)
     @@ ("retries" :> r) @@ ("interval" :> 1) :
        wf \in SeqsUpTo(Conds, MaxConds),
        m \in {"all", "any"},
        r \in 0..MaxRetries}

InitCommand ==
    /\ pc = "start"
    /\ NoLines
    /\ NoCall
    /\ params \in CommandParams
    /\ check_mode \in BOOLEAN
    /\ module = "vrp_command"
    /\ sent = <<>>
    /\ files = <<>> /\ now = 0 /\ backup_path = ""
    /\ attempt = 0 /\ history = <<>> /\ stdout = <<>> /\ failed_conditions = <<>>

\* if module.check_mode: module.exit_json(changed=False); otherwise the loop
CommandStart ==
    /\ pc = "start"
    /\ pc' = IF check_mode THEN "done" ELSE "loop"
    /\ UNCHANGED <<line, line2, out, callVars, moduleVars, hostVars>>

\* the iteration went on to the end of its body: time.sleep(interval) when
\* attempt < retries, stdout = outputs after the last attempt
attempt_goes_on(outputs) ==
    /\ pc' = "loop"
    /\ stdout' = IF attempt + 1 < params["retries"] THEN stdout ELSE outputs

\* one iteration of for attempt in range(1, retries + 1): the batch is run, and
\* the loop breaks with stdout = outputs when the conditions are met
attempt_step(outputs, res) ==
    /\ sent' = Append(sent, params["commands"])
    /\ history' = Append(history, outputs)
    /\ attempt' = attempt + 1
    /\ IF res = "raise" THEN pc' = "raised" /\ stdout' = stdout
       ELSE IF res = "true" THEN pc' = "done" /\ stdout' = outputs
       ELSE attempt_goes_on(outputs)

CommandAttempt ==
    /\ pc = "loop"
    /\ attempt < params["retries"]
    /\ \E outputs \in Outputs :
          attempt_step(outputs,
                       attempt_result(params["wait_for"], params["match"], outputs))
    /\ UNCHANGED <<line, line2, out, callVars, params, check_mode, module, backupVars,
                   failed_conditions>>

\* the else clause of the loop: the unmet conditions are collected from stdout
\* and module.fail_json is called
CommandElse ==
    /\ pc = "loop"
    /\ attempt >= params["retries"]
    /\ IF unmet_raises(params["wait_for"], stdout)
       THEN pc' = "raised" /\ failed_conditions' = failed_conditions
       ELSE /\ pc' = "failed"
            /\ failed_conditions' = unmet(params["wait_for"], stdout)
    /\ UNCHANGED <<line, line2, out, callVars, moduleVars, backupVars, attempt,
                   history, stdout>>

NextCommand == CommandStart \/ CommandAttempt \/ CommandElse

SpecCommand == InitCommand /\ [][NextCommand]_vars

\* the condition "result[i] contains T" or "result[i] not contains T" holds of
\* the outputs of an attempt
Holds(c, outs) ==
    LET toks == split(c)
        i == DigitVal[Ch(toks[1], 8)]
    IN  /\ i < Len(outs)
        /\ IF toks[2] = "not" THEN ~contains(outs[i + 1], toks[4])
           ELSE contains(outs[i + 1], toks[3])

\* the outputs of an attempt satisfy the wait_for conditions under match
Satisfied(outs) ==
    \/ params["wait_for"] = <<>>
    \/ /\ params["match"] = "all"
       /\ \A k \in DOMAIN params["wait_for"] : Holds(params["wait_for"][k], outs)
    \/ /\ params["match"] = "any"
       /\ \E k \in DOMAIN params["wait_for"] : Holds(params["wait_for"][k], outs)

\* C20: the batch is executed at most retries times; the run ends successfully
\* at the first attempt whose outputs satisfy the conditions, with that
\* attempt's outputs and changed = false; when no attempt satisfies them the
\* run ends in a failure that lists the unmet conditions, and no exception is
\* raised
BoundedPolling ==
    /\ Len(sent) <= params["retries"]
    /\ pc # "raised"
    /\ (pc = "done" /\ ~check_mode) =>
          /\ ~changed
          /\ history # <<>>
          /\ stdout = history[Len(history)]
          /\ Satisfied(history[Len(history)])
          /\ \A k \in 1..(Len(history) - 1) : ~Satisfied(history[k])
    /\ pc = "failed" =>
          /\ Len(history) = params["retries"]
          /\ \A k \in DOMAIN history : ~Satisfied(history[k])
          /\ failed_conditions =
                SelectSeq(params["wait_for"], LAMBDA c : ~Holds(c, stdout))

\* every condition of wait_for names an output of the attempt
InRange(outs) ==
    \A k \in DOMAIN params["wait_for"] :
        DigitVal[Ch(split(params["wait_for"][k])[1], 8)] < Len(outs)

\* all conditions hold under match = all, at least one holds under match = any
AttemptMet(outs) ==
    IF params["match"] = "all"
    THEN \A k \in DOMAIN params["wait_for"] : Holds(params["wait_for"][k], outs)
    ELSE \E k \in DOMAIN params["wait_for"] : Holds(params["wait_for"][k], outs)

\* C21: result[i] contains T holds iff T is a substring of output i, and
\* result[i] not contains T iff it is not; an attempt succeeds, ending the
\* run, iff all conditions hold under match = all and iff at least one holds
\* under match = any
ConditionSemantics ==
    \A k \in DOMAIN history :
        (params["wait_for"] # <<>> /\ InRange(history[k])) =>
            ((k = Len(history) /\ pc = "done") <=> AttemptMet(history[k]))

-----------------------------------------------------------------------------
(* Module runs: vrp_stp_global                                             *)

StpParams ==
    {opt("bpdu_protect", g, v) @@ ("state" :> st) @@ ("save_when" :> sw)
     @@ ("backup" :> b) @@ bp :
        g \in BOOLEAN, v \in BOOLEAN,
        st \in {"present", "absent"},
        sw \in {"never", "changed", "always"},
        b \in BOOLEAN,
        bp \in {<<>>, "backup_path" :> "router.cfg"}}

\* running configurations without and with the global line
StpConfigs ==
    {<<"#", "sysname X", "#">>,
     <<"#", "sysname X", "stp bpdu-protection", "#">>}

\* if p.get("bpdu_protect") is True: ...; if p["state"] == "absent": ...
_build_desired_lines(p) ==
    IF has(p, "bpdu_protect") /\ p["bpdu_protect"] THEN <<"stp bpdu-protection">>
    ELSE IF p["state"] = "absent" THEN <<"stp bpdu-protection">>
    ELSE <<>>

\* p.get("backup_path"), "" standing for None
get_backup_path(p) == IF has(p, "backup_path") THEN p["backup_path"] ELSE ""

\* the fetch of backup_config when a backup is asked for
backup_fetch(p) == IF p["backup"] THEN <<Fetch>> ELSE <<>>

InitStp ==
    /\ pc = "start"
    /\ NoLines
    /\ running \in StpConfigs
    /\ parents = <<>> /\ cand = <<>> /\ state = "" /\ keep = <<>>
    /\ save_when = "" /\ cmds = <<>> /\ cmds0 = <<>>
    /\ changed = FALSE /\ cli = <<>>
    /\ params \in StpParams
    /\ check_mode \in BOOLEAN
    /\ module = "vrp_stp_global"
    /\ sent = <<>>
    /\ files = <<>> /\ now = 1 /\ backup_path = ""
    /\ attempt = 0 /\ history = <<>> /\ stdout = <<>> /\ failed_conditions = <<>>

\* changed = cfg_changed or backup_changed; exit_json in check mode, otherwise
\* conn.run_commands(cli_cmds) if cfg_changed
stp_finish(p, r, bk) ==
    /\ pc' = "done"
    /\ changed' = (r[1] \/ bk[1])
    /\ cli' = r[2]
    /\ backup_path' = bk[2]
    /\ files' = bk[3]
    /\ sent' = backup_fetch(p) \o <<Fetch>>
               \o (IF r[1] /\ ~check_mode THEN <<r[2]>> ELSE <<>>)

\* vrp_stp_global.main: the optional backup, the desired lines, diff_and_wrap
\* in the global context with state present or absent
StpMain ==
    /\ pc = "start"
    /\ parents' = <<>>
    /\ cand' = _build_desired_lines(params)
    /\ state' = IF params["state"] = "absent" THEN "absent" ELSE "present"
    /\ save_when' = params["save_when"]
    /\ keep' = <<>>
    /\ cmds' = diff_line_match(running, <<>>, cand', state', <<>>)
    /\ stp_finish(params,
                  diff_and_wrap(running, <<>>, cand', save_when',
                                state' = "absent", <<>>, state'),
                  backup_config(files, running, params["backup"],
                                get_backup_path(params), "vrp_stp_", now))
    /\ UNCHANGED <<line, line2, out, running, cmds0, params, check_mode, module,
                   now, pollVars>>

NextStp == StpMain

SpecStp == InitStp /\ [][NextStp]_vars

\* the running configuration holds the line stp bpdu-protection
HasBpduLine == \E i \in DOMAIN running : running[i] = "stp bpdu-protection"

\* the run is asked to disable BPDU protection
StpDisableAsked ==
    \/ /\ has(params, "bpdu_protect") /\ ~params["bpdu_protect"]
       /\ params["state"] = "present"
    \/ /\ has(params, "bpdu_protect") /\ params["bpdu_protect"]
       /\ params["state"] = "absent"

\* C22: with bpdu_protect=false and state=present, or bpdu_protect=true and
\* state=absent, on a running configuration that holds stp bpdu-protection the
\* module returns changed=true and undo stp bpdu-protection is in its commands
StpDisable ==
    (pc = "done" /\ HasBpduLine /\ StpDisableAsked) =>
        /\ changed
        /\ \E i \in DOMAIN cli : cli[i] = Plain("undo stp bpdu-protection")

-----------------------------------------------------------------------------
(* Module runs: vrp_system                                                 *)

SystemParams ==
    {dn @@ v4 @@ v6 @@ ("state" :> st) @@ ("save_when" :> sw) @@ ("backup" :> b) :
        dn \in {<<>>, "domain_name" :> "example.com"},
        v4 \in {<<>>, "ipv4" :> <<"192.0.2.1">>,
                "ipv4" :> <<"192.0.2.1", "192.0.2.2">>},
        v6 \in {<<>>, "ipv6" :> <<"2001:db8::1">>},
        st \in {"present", "absent"},
        sw \in {"never", "changed", "always"},
        b \in BOOLEAN}

\* running configurations: no DNS line, the domain name and one server, all
SystemConfigs ==
    {<<"#", "sysname X", "#">>,
     <<"#", "ip domain-name example.com", "dns server 192.0.2.1", "#">>,
     <<"#", "ip domain-name example.com", "dns server 192.0.2.1",
       "dns server 192.0.2.2", "dns ipv6 server 2001:db8::1", "#">>}

\* cmd = ...; if p["state"] == "absent": cmd = "undo " + cmd
system_cmd(p, cmd) == IF p["state"] = "absent" THEN "undo " \o cmd ELSE cmd

\* for ip in p.get(k) or []: cmds.append(...)
system_servers(p, k, head) ==
    IF has(p, k) THEN [i \in DOMAIN p[k] |-> system_cmd(p, head \o p[k][i])]
    ELSE <<>>

\* Step 2: the desired lines
system_cmds(p) ==
    (IF has(p, "domain_name") /\ p["domain_name"] # ""
     THEN <<system_cmd(p, "ip domain-name " \o p["domain_name"])>> ELSE <<>>)
    \o system_servers(p, "ipv4", "dns server ")
    \o system_servers(p, "ipv6", "dns ipv6 server ")

\* flat = {line.strip() for line in running};
\* all(line.strip() in flat for line in desired)
lines_present(run, desired) ==
    \A k \in DOMAIN desired :
        \E i \in DOMAIN run : strip(run[i]) = strip(desired[k])

InitSystem ==
    /\ pc = "start"
    /\ NoLines
    /\ running \in SystemConfigs
    /\ parents = <<>> /\ cand = <<>> /\ state = "" /\ keep = <<>>
    /\ save_when = "" /\ cmds = <<>> /\ cmds0 = <<>>
    /\ changed = FALSE /\ cli = <<>>
    /\ params \in SystemParams
    /\ check_mode \in BOOLEAN
    /\ module = "vrp_system"
    /\ sent = <<>>
    /\ files = <<>> /\ now = 1 /\ backup_path = ""
    /\ attempt = 0 /\ history = <<>> /\ stdout = <<>> /\ failed_conditions = <<>>

\* Step 3 and the first exit of Step 4: module.exit_json(changed=changed, ...)
\* with the changed of the backup; fetched tells whether Step 4 was reached
system_exit(p, bk, fetched) ==
    /\ changed' = bk[1]
    /\ cli' = <<>>
    /\ cmds' = <<>>
    /\ sent' = backup_fetch(p) \o (IF fetched THEN <<Fetch>> ELSE <<>>)

\* Steps 5 and 6: diff_and_wrap(conn, [], cmds, p["save_when"], replace=False),
\* the exit of check mode, conn.run_commands(cli) if diffed
system_send(p, bk, r) ==
    /\ changed' = (bk[1] \/ r[1])
    /\ cli' = r[2]
    /\ sent' = backup_fetch(p) \o <<Fetch, Fetch>>
               \o (IF r[1] /\ ~check_mode THEN <<r[2]>> ELSE <<>>)

system_steps(p, bk, desired) ==
    /\ backup_path' = bk[2]
    /\ files' = bk[3]
    /\ IF desired = <<>> THEN system_exit(p, bk, FALSE)
       ELSE IF p["state"] = "present" /\ lines_present(running, desired)
       THEN system_exit(p, bk, TRUE)
       ELSE /\ cmds' = diff_line_match(running, <<>>, desired, "present", <<>>)
            /\ system_send(p, bk, diff_and_wrap(running, <<>>, desired,
                                                p["save_when"], FALSE, <<>>, ""))

\* vrp_system.main
SystemMain ==
    /\ pc = "start"
    /\ pc' = "done"
    /\ parents' = <<>>
    /\ cand' = system_cmds(params)
    /\ state' = "present"
    /\ save_when' = params["save_when"]
    /\ keep' = <<>>
    /\ system_steps(params,
                    backup_config(files, running, params["backup"],
                                  get_backup_path(params), "vrp_", now),
                    cand')
    /\ UNCHANGED <<line, line2, out, running, cmds0, params, check_mode, module,
                   now, pollVars>>

NextSystem == SystemMain

SpecSystem == InitSystem /\ [][NextSystem]_vars

\* the lines the parameters name: the domain name and the DNS servers
NamedLines ==
    (IF has(params, "domain_name")
     THEN <<"ip domain-name " \o params["domain_name"]>> ELSE <<>>)
    \o (IF has(params, "ipv4")
        THEN [i \in DOMAIN params["ipv4"] |-> "dns server " \o params["ipv4"][i]]
        ELSE <<>>)
    \o (IF has(params, "ipv6")
        THEN [i \in DOMAIN params["ipv6"] |->
                 "dns ipv6 server " \o params["ipv6"][i]]
        ELSE <<>>)

InRunning(l) == \E i \in DOMAIN running : running[i] = l

\* the undo of every named line that is in the running configuration
ExistingUndos ==
    {Plain("undo " \o NamedLines[k]) :
        k \in {j \in DOMAIN NamedLines : InRunning(NamedLines[j])}}

\* the undo commands of the returned command list
SentUndos ==
    {cli[i] : i \in {j \in DOMAIN cli : startswith(cli[j].command, "undo ")}}

\* C23: with state=absent the module emits an undo only for the named lines
\* that are in the running configuration; when none of them is there it sends
\* no command and, no backup being asked for, returns changed=false
SystemRemovalIdempotent ==
    (pc = "done" /\ params["state"] = "absent") =>
        /\ SentUndos = ExistingUndos
        /\ ExistingUndos = {} =>
              /\ \A i \in DOMAIN sent : sent[i] = Fetch
              /\ ~params["backup"] => ~changed

-----------------------------------------------------------------------------
(* Module runs: vrp_user                                                   *)

\* width of textwrap.wrap(key, width=60)
KeyWidth == 60

\* " " * n
RECURSIVE spaces(_)
spaces(n) == IF n <= 0 THEN "" ELSE " " \o spaces(n - 1)

\* the chunks of textwrap: the maximal runs of blanks, each blank replaced by a
\* space, and the maximal runs of other characters (the texts of the model
\* hold no tab, and a hyphen only where no line can end)
RECURSIVE wrap_split(_)
wrap_split(s) ==
    IF s = "" THEN <<>>
    ELSE IF blanks(s) > 0
    THEN <<spaces(blanks(s))>> \o wrap_split(Drop(s, blanks(s)))
    ELSE <<word(s)>> \o wrap_split(Drop(s, Len(word(s))))

\* while chunks: if cur_len + len(chunks[-1]) <= width: cur_line.append(...)
RECURSIVE wrap_fill(_, _, _)
wrap_fill(cur, chunks, width) ==
    IF chunks # <<>> /\ Len(concat(cur)) + Len(chunks[1]) <= width
    THEN wrap_fill(Append(cur, chunks[1]), Tail(chunks), width)
    ELSE <<cur, chunks>>

\* _handle_long_word: a chunk longer than width is cut at the space left
wrap_cut(cur, chunks, space_left) ==
    <<Append(cur, Take(chunks[1], space_left)),
      <<Drop(chunks[1], space_left)>> \o Tail(chunks)>>

wrap_long(cur, chunks, width) ==
    IF chunks # <<>> /\ Len(chunks[1]) > width
    THEN wrap_cut(cur, chunks, IF width < 1 THEN 1 ELSE width - Len(concat(cur)))
    ELSE <<cur, chunks>>

\* a blank chunk at the end of the line is dropped
wrap_drop(cur) ==
    IF cur # <<>> /\ strip(cur[Len(cur)]) = ""
    THEN SubSeq(cur, 1, Len(cur) - 1) ELSE cur

\* a blank chunk at the start of a line after the first is dropped
wrap_start(chunks, lines) ==
    IF strip(chunks[1]) = "" /\ lines # <<>> THEN Tail(chunks) ELSE chunks

RECURSIVE wrap_lines(_, _, _)

wrap_emit(cur, chunks, width, lines) ==
    wrap_lines(chunks, width,
               IF cur # <<>> THEN Append(lines, concat(cur)) ELSE lines)

wrap_line(fc, width, lines) ==
    wrap_emit(wrap_drop(wrap_long(fc[1], fc[2], width)[1]),
              wrap_long(fc[1], fc[2], width)[2], width, lines)

\* TextWrapper._wrap_chunks
wrap_lines(chunks, width, lines) ==
    IF chunks = <<>> THEN lines
    ELSE wrap_line(wrap_fill(<<>>, wrap_start(chunks, lines), width), width,
                   lines)

\* textwrap.wrap(text, width)
wrap(text, width) == wrap_lines(wrap_split(text), width, <<>>)


UserKeys ==
    {"ssh-rsa AAAAB3NzaC1yc2E bob@host",
     "ssh-rsa AAAAB3NzaC1yc2EAAAADAQABAAABAQC7vbqajDhA0123456789"
     \o "abcdefghijklmnopqrstuvwxyzABCDEFGH bob@host"}

UserParams ==
    {("name" :> "bob") @@ pw @@ k @@ lv @@ sv @@ ("state" :> st)
     @@ ("save_when" :> sw) :
        pw \in {<<>>, "password" :> "Secret1"},
        k \in {<<>>} \cup {"ssh_key" :> key : key \in UserKeys},
        lv \in {<<>>, "level" :> 3},
        sv \in {<<>>, "service_type" :> "ssh"},
        st \in {"present", "absent"},
        sw \in {"never", "changed", "always"}}

\* running configurations: no user, the user bob with key and SSH lines, and
\* the user bob with a privilege level only
UserConfigs ==
    {<<"#", "aaa", "#">>,
     <<"#", "rsa peer-public-key bob encoding-type openssh",
       "ssh user bob authentication-type rsa", "ssh user bob assign rsa-key bob",
       "ssh user bob service-type stelnet", "aaa",
       " local-user bob privilege level 3", " local-user bob service-type ssh",
       "#">>,
     <<"#", "aaa", " local-user bob privilege level 3", "#">>}

\* f"local-user {name} privilege level {p['level']}" if level is given
level_lines(p) ==
    IF has(p, "level")
    THEN <<"local-user " \o p["name"] \o " privilege level " \o to_str(p["level"])>>
    ELSE <<>>

\* f"local-user {name} service-type {p['service_type']}" if it is given
service_lines(p) ==
    IF has(p, "service_type") /\ p["service_type"] # ""
    THEN <<"local-user " \o p["name"] \o " service-type " \o p["service_type"]>>
    ELSE <<>>

\* password, level, service type
_aaa_one_liners(p) ==
    (IF has(p, "password")
     THEN <<"local-user " \o p["name"] \o " password irreversible-cipher "
            \o p["password"]>>
     ELSE <<>>)
    \o level_lines(p) \o service_lines(p)

_ssh_user_block(p) ==
    <<"ssh user " \o p["name"] \o " authentication-type rsa",
      "ssh user " \o p["name"] \o " assign rsa-key " \o p["name"],
      "ssh user " \o p["name"] \o " service-type stelnet">>

\* parent_cmd = f"rsa peer-public-key {name} encoding-type openssh"
parent_cmd(p) == "rsa peer-public-key " \o p["name"] \o " encoding-type openssh"

\* the commands of the public-key editor block, as all_cmds is extended by them
key_import(p) ==
    plain_list(<<parent_cmd(p), "public-key-code begin">>
               \o wrap(p["ssh_key"], KeyWidth)
               \o <<"public-key-code end", "peer-public-key end">>)

\* the batches of the public-key editor block, one conn.run_commands each
key_batches(p) ==
    <<plain_list(<<parent_cmd(p)>>), plain_list(<<"public-key-code begin">>)>>
    \o [i \in DOMAIN wrap(p["ssh_key"], KeyWidth) |->
           plain_list(<<wrap(p["ssh_key"], KeyWidth)[i]>>)]
    \o <<plain_list(<<"public-key-code end", "peer-public-key end">>)>>

\* the prompt handling of one command of all_cmds; a command with a prompt is
\* a dict and is kept
final_cmd(p, c) ==
    IF c.prompt # "" THEN c
    ELSE IF has(p, "level") /\ <<c.command>> = level_lines(p)
    THEN [command |-> c.command, prompt |-> "[Yy]/[Nn]", answer |-> "y"]
    ELSE IF startswith(c.command, "undo rsa peer-public-key " \o p["name"])
    THEN [command |-> c.command, prompt |-> "\\[Y/N\\]:", answer |-> "y"]
    ELSE c

final_cmds(p, all_cmds) == [i \in DOMAIN all_cmds |-> final_cmd(p, all_cmds[i])]

\* vc.diff_and_wrap(conn, parents, cand_children, save_when, replace=False)
user_wrap(par, cs, p) ==
    diff_and_wrap(running, par, cs, p["save_when"], FALSE, <<>>, "")

InitUser ==
    /\ NoHost
    /\ pc = "start"
    /\ NoLines
    /\ running \in UserConfigs
    /\ parents = <<>> /\ cand = <<>> /\ state = "" /\ keep = <<>>
    /\ save_when = "" /\ cmds = <<>> /\ cmds0 = <<>>
    /\ changed = FALSE /\ cli = <<>>
    /\ params \in UserParams
    /\ check_mode \in BOOLEAN
    /\ module = "vrp_user"
    /\ sent = <<>>

\* the end of main: exit_json in check mode with all_cmds; in a live run the
\* prompt handling and conn.run_commands(final_cmds) if changed
user_finish(p, all_cmds, chg, fetched) ==
    /\ pc' = "done"
    /\ changed' = chg
    /\ cli' = IF check_mode THEN all_cmds ELSE final_cmds(p, all_cmds)
    /\ sent' = fetched \o (IF ~check_mode /\ chg
                           THEN <<final_cmds(p, all_cmds)>> ELSE <<>>)

\* state=present with ssh_key: the peer-public-key parent, the editor block
\* when it changed and the run is live, the AAA part and the SSH user part
user_key(p, r1, r2, r3) ==
    user_finish(p,
                r1[2] \o (IF r1[1] /\ ~check_mode THEN key_import(p) ELSE <<>>)
                \o r2[2] \o r3[2],
                r1[1] \/ r2[1] \/ r3[1],
                <<Fetch>> \o (IF r1[1] /\ ~check_mode THEN key_batches(p) ELSE <<>>)
                \o <<Fetch, Fetch>>)

\* state=present without ssh_key: the AAA one-liners
user_plain(p, r2) == user_finish(p, r2[2], r2[1], <<Fetch>>)

\* vrp_user.main, state=present
UserPresent ==
    /\ pc = "start"
    /\ params["state"] = "present"
    /\ IF has(params, "ssh_key")
       THEN user_key(params,
                     user_wrap(<<>>, <<parent_cmd(params)>>, params),
                     user_wrap(<<"aaa">>,
                               level_lines(params) \o service_lines(params),
                               params),
                     user_wrap(<<>>, _ssh_user_block(params), params))
       ELSE user_plain(params,
                       user_wrap(<<"aaa">>, _aaa_one_liners(params), params))
    /\ UNCHANGED <<hostVars, line, line2, out, running, parents, cand, state, keep,
                   save_when, cmds, cmds0, params, check_mode, module>>

\* vrp_user.main, state=absent: vc.diff_and_wrap(conn, [], sys_removals,
\* p["save_when"], False) passes five positional arguments to a function that
\* takes four (replace is keyword-only): TypeError before anything is sent
UserAbsent ==
    /\ pc = "start"
    /\ params["state"] = "absent"
    /\ pc' = "raised"
    /\ UNCHANGED <<hostVars, line, line2, out, callVars, moduleVars>>

NextUser == UserPresent \/ UserAbsent

SpecUser == InitUser /\ [][NextUser]_vars


\* a line of the running configuration, leading blanks apart, starts with head
HasLineOf(head) ==
    \E i \in DOMAIN running : startswith(lstrip(running[i]), head)

\* the running configuration holds a line of the user
UserConfigured ==
    \/ HasLineOf("local-user " \o params["name"] \o " ")
    \/ HasLineOf("ssh user " \o params["name"] \o " ")
    \/ HasLineOf("rsa peer-public-key " \o params["name"] \o " ")

\* the position of a command with the given text in the returned list, 0 if none
CliAt(text) ==
    IF \E i \in DOMAIN cli : cli[i].command = text
    THEN CHOOSE i \in DOMAIN cli : cli[i].command = text
    ELSE 0

\* C24: with state=absent vrp_user ends without error; when the running
\* configuration holds lines of the user it returns changed=true and its
\* commands undo them, undo local-user <name> inside aaa; when it holds none
\* it sends no command and returns changed=false
UserRemoval ==
    (params["state"] = "absent" /\ pc # "start") =>
        /\ pc = "done"
        /\ UserConfigured =>
              /\ changed
              /\ \E i \in DOMAIN sent : sent[i] = cli
              /\ HasLineOf("local-user " \o params["name"] \o " ") =>
                    /\ CliAt("aaa") > 0
                    /\ CliAt("undo local-user " \o params["name"]) > CliAt("aaa")
              /\ HasLineOf("ssh user " \o params["name"] \o " ") =>
                    \E i \in DOMAIN cli :
                        startswith(cli[i].command,
                                   "undo ssh user " \o params["name"])
              /\ HasLineOf("rsa peer-public-key " \o params["name"] \o " ") =>
                    CliAt("undo rsa peer-public-key " \o params["name"]) > 0
        /\ ~UserConfigured =>
              /\ ~changed
              /\ \A i \in DOMAIN sent : sent[i] = Fetch

\* the commands sent to the device, in order, the fetches of the running
\* configuration apart
RECURSIVE commands_sent(_)
commands_sent(batches) ==
    IF batches = <<>> THEN <<>>
    ELSE (IF batches[1] = Fetch THEN <<>> ELSE batches[1])
         \o commands_sent(Tail(batches))

\* a command of the public-key import sequence
IsImportCommand(c) ==
    \/ c.command \in {"rsa peer-public-key " \o params["name"]
                          \o " encoding-type openssh",
                      "public-key-code begin", "public-key-code end",
                      "peer-public-key end"}
    \/ contains(params["ssh_key"], c.command)

\* C30: in a live run with state=present and ssh_key set every command of the
\* public-key import sequence is sent at most once, and the list reported in
\* commands is the sequence of the commands sent
KeyImportOnce ==
    (pc = "done" /\ ~check_mode /\ params["state"] = "present"
     /\ has(params, "ssh_key")) =>
        /\ \A i \in DOMAIN commands_sent(sent) :
              IsImportCommand(commands_sent(sent)[i]) =>
                  count(commands_sent(sent), commands_sent(sent)[i]) <= 1
        /\ cli = commands_sent(sent)

-----------------------------------------------------------------------------
(* diff_line_match on the parent paths and running configurations that     *)
(* decide which block it locates                                           *)

\* running configurations: the block of interface GE1 in the middle, written
\* with another case and spacing, at the end of the sequence, and after a
\* first parent line without children
BlockRuns ==
    {<<"sysname X", "interface GE1", " description Old", " shutdown",
       "interface GE2", " shutdown">>,
     <<"sysname X", "Interface  GE1", " shutdown", "interface GE2",
       " description Old">>,
     <<"sysname X", "interface GE2", " description Old", "interface GE1",
       " shutdown">>,
     <<"sysname X", "interface GE1", "interface GE1", " shutdown">>}

\* parent paths: the global context, a parent, a parent with a deeper level,
\* and a parent no running configuration holds
BlockParents ==
    {<<>>, <<"interface GE1">>, <<"interface GE1", "interface GE2">>,
     <<"interface GE9">>}

BlockCandLines == {"sysname X", "shutdown", "Description  New", "undo shutdown"}

BlockCandLists == {cs \in SeqsUpTo(BlockCandLines, MaxCand) : NoDup(cs)}

InitBlock ==
    /\ NoHost
    /\ pc = "call"
    /\ running \in BlockRuns
    /\ parents \in BlockParents
    /\ cand \in BlockCandLists
    /\ state \in {"present", "absent", "replace"}
    /\ keep \in KeepLists
    /\ state # "replace" => keep = <<>>
    /\ cmds = <<>> /\ cmds0 = <<>>
    /\ NoLines
    /\ save_when = "" /\ changed = FALSE /\ cli = <<>>
    /\ NoModule

NextBlock == Diff

SpecBlock == InitBlock /\ [][NextBlock]_vars

FirstAt ==
    CHOOSE i \in DOMAIN running :
        running[i] = parents[1] /\ \A j \in 1..(i - 1) : running[j] # parents[1]

\* the last position of the run of lines after position s that start with a
\* space
RunEnd(s) ==
    CHOOSE e \in s..Len(running) :
        /\ \A k \in (s + 1)..e : startswith(running[k], " ")
        /\ e = Len(running) \/ ~startswith(running[e + 1], " ")

\* C26: for a non-empty parent path find_parent_block returns (-1, -1) iff no
\* line of the running configuration equals parents[0] exactly; otherwise the
\* child lines of the diff are the maximal run of lines that follow the first
\* such line and start with a space; parents[1:] changes neither the block nor
\* the result of the diff
BlockLocation ==
    parents # <<>> =>
        /\ find_parent_block(running, parents) = <<-1, -1>>
              <=> \A i \in DOMAIN running : running[i] # parents[1]
        /\ (\E i \in DOMAIN running : running[i] = parents[1]) =>
              located = SubSeq(running, FirstAt + 1, RunEnd(FirstAt))
        /\ find_parent_block(running, parents)
              = find_parent_block(running, <<parents[1]>>)
        /\ pc = "diffed" =>
              cmds = diff_line_match(running, <<parents[1]>>, cand, state, keep)

\* C26 witness: the block is the last of the running configuration, the parent
\* path has a second level, and the replace without candidates removes the one
\* child of the block
BlockLocationWitness ==
    /\ pc = "diffed"
    /\ state = "replace"
    /\ running = <<"sysname X", "interface GE2", " description Old",
                   "interface GE1", " shutdown">>
    /\ parents = <<"interface GE1", "interface GE2">>
    /\ cand = <<>>
    /\ keep = <<>>
    /\ cmds = <<"undo shutdown">>

\* C27: with an empty parent path every line of the running configuration,
\* from the first to the last, counts as an existing line: a candidate of
\* present mode is emitted iff its normal form is that of no line, and in
\* replace mode every line that matches no candidate and no keep line is
\* removed
GlobalWholeFile ==
    (pc = "diffed" /\ parents = <<>>) =>
        /\ located = running
        /\ state = "present" =>
              \A i \in DOMAIN cand :
                  ~IsSpecial(cand[i]) =>
                      (cand[i] \in Range(cmds)
                          <=> _norm(cand[i]) \notin norms(running))
        /\ state = "replace" =>
              \A j \in DOMAIN running :
                  (/\ _norm(running[j]) \notin norms(cand) \cup norms(keep)
                   /\ _undo_cmd(running[j]) # "")
                      => _undo_cmd(running[j]) \in Range(cmds)

\* C29: the command list diff_line_match returns holds no command twice
NoDuplicateCommands == pc = "diffed" => NoDup(cmds)

-----------------------------------------------------------------------------
(* Module runs: vrp_ntp                                                    *)

\* module.params with the defaults of the argument spec filled in
NtpParams ==
    {("server" :> "192.0.2.10") @@ si @@ ("timezone_name" :> "CET")
     @@ ("timezone_offset" :> 1) @@ dst @@ ("disable_ipv4_server" :> d4)
     @@ ("disable_ipv6_server" :> TRUE) @@ mt @@ ("state" :> st)
     @@ ("save_when" :> sw) @@ ("backup" :> b) :
        si \in {<<>>, "source_interface" :> "Vlanif10"},
        dst \in {<<>>,
                 ("dst_name" :> "MyDST") @@ ("dst_start" :> "01:00 2026-03-29")
                 @@ ("dst_end" :> "01:00 2026-10-25") @@ ("dst_offset" :> "01:00")},
        d4 \in BOOLEAN,
        mt \in {<<>>, "manage_timezone" :> TRUE, "manage_timezone" :> FALSE},
        st \in {"present", "absent"},
        sw \in {"never", "changed", "always"},
        b \in BOOLEAN}

\* running configurations without and with the NTP lines
NtpConfigs ==
    {<<"#", "sysname X", "#">>,
     <<"#", "clock timezone CET add 01:00:00", "ntp server disable",
       "ntp ipv6 server disable", "ntp unicast-server 192.0.2.10", "#">>}

\* if p["manage_timezone"] is None: p["manage_timezone"] = p["state"] == "present"
manage_timezone(p) ==
    IF has(p, "manage_timezone") THEN p["manage_timezone"]
    ELSE p["state"] = "present"

\* p.get(k) is given and not empty
given(p, k) == has(p, k) /\ p[k] # ""

\* the daylight-saving line, when all four parameters are given
dst_lines(p) ==
    IF given(p, "dst_start") /\ given(p, "dst_end") /\ given(p, "dst_name")
       /\ given(p, "dst_offset")
    THEN <<"clock daylight-saving-time " \o p["dst_name"] \o " one-year "
           \o p["dst_start"] \o " " \o p["dst_end"] \o " " \o p["dst_offset"]>>
    ELSE <<>>

\* _build_desired_lines of vrp_ntp
ntp_desired_lines(p) ==
    (IF manage_timezone(p)
     THEN <<"clock timezone " \o p["timezone_name"] \o " add "
            \o to_str(p["timezone_offset"])>> \o dst_lines(p)
     ELSE <<>>)
    \o <<"ntp unicast-server " \o p["server"]>>
    \o (IF p["disable_ipv4_server"] THEN <<"ntp server disable">> ELSE <<>>)
    \o (IF p["disable_ipv6_server"] THEN <<"ntp ipv6 server disable">> ELSE <<>>)
    \o (IF given(p, "source_interface")
        THEN <<"ntp server source-interface " \o p["source_interface"]>>
        ELSE <<>>)

InitNtp ==
    /\ pc = "start"
    /\ NoLines
    /\ running \in NtpConfigs
    /\ parents = <<>> /\ cand = <<>> /\ state = "" /\ keep = <<>>
    /\ save_when = "" /\ cmds = <<>> /\ cmds0 = <<>>
    /\ changed = FALSE /\ cli = <<>>
    /\ params \in NtpParams
    /\ check_mode \in BOOLEAN
    /\ module = "vrp_ntp"
    /\ sent = <<>>
    /\ files = <<>> /\ now = 1 /\ backup_path = ""
    /\ attempt = 0 /\ history = <<>> /\ stdout = <<>> /\ failed_conditions = <<>>

\* changed = cfg_changed or backup_changed; in check mode the call of
\* vc.finish_module, which vrp_common does not define (AttributeError);
\* otherwise conn.run_commands(cli_cmds) if cfg_changed and exit_json
ntp_finish(p, r, bk) ==
    /\ backup_path' = bk[2]
    /\ files' = bk[3]
    /\ IF check_mode
       THEN /\ pc' = "raised"
            /\ sent' = backup_fetch(p) \o <<Fetch>>
            /\ UNCHANGED <<changed, cli>>
       ELSE /\ pc' = "done"
            /\ changed' = (r[1] \/ bk[1])
            /\ cli' = r[2]
            /\ sent' = backup_fetch(p) \o <<Fetch>>
                       \o (IF r[1] THEN <<r[2]>> ELSE <<>>)

\* vrp_ntp.main
NtpMain ==
    /\ pc = "start"
    /\ parents' = <<>>
    /\ cand' = ntp_desired_lines(params)
    /\ state' = IF params["state"] = "absent" THEN "absent" ELSE "present"
    /\ save_when' = params["save_when"]
    /\ keep' = <<>>
    /\ cmds' = diff_line_match(running, <<>>, cand', state', <<>>)
    /\ ntp_finish(params,
                  diff_and_wrap(running, <<>>, cand', save_when', FALSE, <<>>,
                                state'),
                  backup_config(files, running, params["backup"],
                                get_backup_path(params), "vrp_ntp_", now))
    /\ UNCHANGED <<line, line2, out, running, cmds0, params, check_mode, module,
                   now, pollVars>>

NextNtp == NtpMain

SpecNtp == InitNtp /\ [][NextNtp]_vars

-----------------------------------------------------------------------------
(* The modules that support check mode, one run of one of them             *)

InitModules ==
    \/ Init \/ InitVlanModule \/ InitConfig \/ InitCommand
    \/ InitStp \/ InitSystem \/ InitUser \/ InitNtp

NextModules ==
    \/ module = "vrp_interface" /\ Next
    \/ module = "vrp_vlan" /\ NextVlanModule
    \/ module = "vrp_config" /\ NextConfig
    \/ module = "vrp_command" /\ NextCommand
    \/ module = "vrp_stp_global" /\ NextStp
    \/ module = "vrp_system" /\ NextSystem
    \/ module = "vrp_user" /\ NextUser
    \/ module = "vrp_ntp" /\ NextNtp

SpecModules == InitModules /\ [][NextModules]_vars

\* C28: in a run with check mode enabled nothing but the fetch of the running
\* configuration is sent to the device, whatever the diff returns
CheckModeSendsNothing ==
    check_mode => \A i \in DOMAIN sent : sent[i] = Fetch

\* C28 witness: a check-mode run of vrp_user with an SSH key on a device
\* without the user returns changed=true and its commands, and only the three
\* fetches were sent
CheckModeWitness ==
    /\ module = "vrp_user"
    /\ check_mode
    /\ pc = "done"
    /\ has(params, "ssh_key")
    /\ changed
    /\ cli # <<>>
    /\ sent = <<Fetch, Fetch, Fetch>>

=============================================================================
